---------------------------- MODULE Spec2Model ----------------------------
(***************************************************************************)
(* Model of the voice-to-notion pipeline: the error taxonomy, the retry    *)
(* engine, configuration loading, audio chunking, transcription dispatch,  *)
(* summarization, publication and the CLI driver.                          *)
(*                                                                         *)
(* Text that the code inspects (error messages, environment values) is a   *)
(* sequence of one-character strings, so that includes(), toLowerCase(),   *)
(* toUpperCase() and parseInt() are computed character by character.       *)
(* Opaque text (transcripts) is a TLA+ string.                             *)
(***************************************************************************)
EXTENDS Integers, Sequences, FiniteSets, TLC

VARIABLES
  made,        \* errors spec: the error object constructed last
  \* the process and its surroundings
  argv,        \* the command line, as parseArgs sees it
  env,         \* process.env
  fileExists,  \* whether the audio file exists on disk
  tmpFiles,    \* the chunk files on disk
  calls,       \* every subprocess, file-system and API call made, in order
  stdout,      \* what console.log wrote, in order
  \* cli.ts main()
  pc,          \* where main() is
  options,     \* const options = parseCliArgs()
  config,      \* const config = loadConfig(...)
  result,      \* let result: CLIResult | null
  err,         \* the value caught by main's catch
  exitStatus,  \* the process exit status, Running until it exits
  \* audio/index.ts processAudio() and audio/chunk.ts chunkAudio()
  apc, aPath, aMeta, chunkDuration, aChunks, aError,
  \* audio/chunk.ts cleanupChunks()
  kpc,         \* "idle" | "exists" | "rm" | "done"
  kChunks,     \* its `chunks` argument
  kIndex,      \* which chunk of the list its loop is at
  \* transcription/index.ts transcribe() and the provider loop
  tpc, tArgs, selectedProvider, transcripts, tResult, tError,
  \* summarization/claude.ts summarizeWithClaude()
  spc, sArgs, sResult, sError,
  \* notion/index.ts createVoiceNotePage()
  npc, nArgs, nResult, nError,
  \* utils/retry.ts retry()
  rpc,         \* "idle" | "run" | "awaitFn" | "sleep" | "returned" | "threw"
  rFor,        \* which caller's fn is being retried
  rArg,        \* what that fn works on (the chunk, for a provider call)
  rOpts,       \* opts = { ...DEFAULT_OPTIONS, ...options }
  attempt,     \* loop variable `attempt`
  delay,       \* local `delay`
  lastError,   \* local `lastError`
  rValue,      \* the value fn returned
  rThrown,     \* what each failed invocation of fn threw, in order
  rCalls,      \* number of invocations of fn
  sleeps,      \* the delays slept, in order
  warns,       \* the warn() lines, as [attempt, delay, message]
  faultsLeft,  \* how many more invocations the surroundings let fail
  \* a function studied on its own
  fnArg,       \* the arguments it is called with
  fnResult,    \* what it returned
  \* test/cache.ts and test/steps/*.ts: one harness step runner
  cache,       \* the files of .test-cache, by step name
  hpc,         \* where the runner is
  hStep,       \* which runner it is
  hInput,      \* its `input` argument
  hOptions,    \* its `options` argument
  hResult,     \* what it returned
  \* test/cache.ts clearCache()
  cpc,         \* "idle" | "exists" | "write" | "import" | "unlink"
  cIndex,      \* which step of `steps` its loop is at
  cleared,     \* its local `cleared`
  \* test/harness.ts handlePipelineCommand()
  ppc,         \* where the pipeline command is
  pResults     \* the results of the runners that returned, in order

errVars    == <<made>>
worldVars  == <<argv, env, fileExists>>
clearVars  == <<cpc, cIndex, cleared>>
harnessVars == <<cache, hpc, hStep, hInput, hOptions, hResult, ppc, pResults,
                 clearVars>>
otherVars  == <<fnArg, fnResult, harnessVars>>
cliVars    == <<pc, options, config, result, err, exitStatus>>
procVars   == <<apc, aPath, aMeta, chunkDuration, aChunks, aError>>
cleanVars  == <<kpc, kChunks, kIndex>>
audioVars  == <<procVars, cleanVars>>
transVars  == <<tpc, tArgs, selectedProvider, transcripts, tResult, tError>>
sumVars    == <<spc, sArgs, sResult, sError>>
notionVars == <<npc, nArgs, nResult, nError>>
retryVars  == <<rpc, rFor, rArg, rOpts, attempt, delay, lastError, rValue,
                rThrown, rCalls, sleeps, warns>>
vars       == <<made, argv, env, fileExists, tmpFiles, calls, stdout,
                pc, options, config, result, err, exitStatus,
                apc, aPath, aMeta, chunkDuration, aChunks, aError,
                kpc, kChunks, kIndex,
                tpc, tArgs, selectedProvider, transcripts, tResult, tError,
                spc, sArgs, sResult, sError,
                npc, nArgs, nResult, nError,
                rpc, rFor, rArg, rOpts, attempt, delay, lastError, rValue,
                rThrown, rCalls, sleeps, warns, faultsLeft,
                fnArg, fnResult,
                cache, hpc, hStep, hInput, hOptions, hResult, ppc, pResults,
                cpc, cIndex, cleared>>

Undefined == [undefined |-> TRUE]

MinMutant(a, b) == a
Min(a, b) == IF a < b THEN a ELSE b
Max(a, b) == IF a > b THEN a ELSE b

-----------------------------------------------------------------------------
(* Character-level text *)

LowerOf == [c \in {"A","B","C","D","E","F","G","H","I","J","K","L","M","N",
                   "O","P","Q","R","S","T","U","V","W","X","Y","Z"} |->
             CASE c = "A" -> "a" [] c = "B" -> "b" [] c = "C" -> "c"
               [] c = "D" -> "d" [] c = "E" -> "e" [] c = "F" -> "f"
               [] c = "G" -> "g" [] c = "H" -> "h" [] c = "I" -> "i"
               [] c = "J" -> "j" [] c = "K" -> "k" [] c = "L" -> "l"
               [] c = "M" -> "m" [] c = "N" -> "n" [] c = "O" -> "o"
               [] c = "P" -> "p" [] c = "Q" -> "q" [] c = "R" -> "r"
               [] c = "S" -> "s" [] c = "T" -> "t" [] c = "U" -> "u"
               [] c = "V" -> "v" [] c = "W" -> "w" [] c = "X" -> "x"
               [] c = "Y" -> "y" [] c = "Z" -> "z"]

ToLowerCase(s) ==
  [i \in 1..Len(s) |-> IF s[i] \in DOMAIN LowerOf THEN LowerOf[s[i]] ELSE s[i]]

ToUpperCase(s) ==
  [i \in 1..Len(s) |->
     IF \E u \in DOMAIN LowerOf : LowerOf[u] = s[i]
     THEN CHOOSE u \in DOMAIN LowerOf : LowerOf[u] = s[i]
     ELSE s[i]]

\* String.prototype.includes
Includes(s, sub) ==
  \E i \in 0..(Len(s) - Len(sub)) :
     \A j \in 1..Len(sub) : s[i + j] = sub[j]

DigitChar == <<"0","1","2","3","4","5","6","7","8","9">>

RECURSIVE DigitsOf(_)
DigitsOf(n) ==
  IF n < 10 THEN <<DigitChar[n + 1]>>
  ELSE DigitsOf(n \div 10) \o <<DigitChar[(n % 10) + 1]>>

\* Number.prototype.toString for an integer
NumToString(n) == IF n < 0 THEN <<"-">> \o DigitsOf(-n) ELSE DigitsOf(n)

-----------------------------------------------------------------------------
(* Message texts of src/utils/errors.ts and the inputs they are built from *)

T_FileNotFound == <<"F","i","l","e"," ","n","o","t"," ","f","o","u","n","d",":"," ">>
T_MissingEnv == <<"M","i","s","s","i","n","g"," ","r","e","q","u","i","r","e","d"," ","e","n","v","i","r","o","n","m","e","n","t"," ","v","a","r","i","a","b","l","e",":"," ">>
T_NoKeyFor == <<"N","o"," ","A","P","I"," ","k","e","y"," ","f","o","u","n","d"," ","f","o","r"," ">>
T_Set == <<"."," ","S","e","t"," ">>
T_ApiKeyEnv == <<"_","A","P","I","_","K","E","Y"," ","e","n","v","i","r","o","n","m","e","n","t"," ","v","a","r","i","a","b","l","e",".">>
T_TranscriptionFailed == <<" ","t","r","a","n","s","c","r","i","p","t","i","o","n"," ","f","a","i","l","e","d",":"," ">>
T_TooLarge == <<"A","u","d","i","o"," ","f","i","l","e"," ","t","o","o"," ","l","a","r","g","e"," ","(">>
T_MaxSizeIs == <<"M","B",")","."," ","M","a","x","i","m","u","m"," ","s","i","z","e"," ","i","s"," ">>
T_MB == <<"M","B",".">>
T_ClaudeFailed == <<"C","l","a","u","d","e"," ","s","u","m","m","a","r","i","z","a","t","i","o","n"," ","f","a","i","l","e","d",":"," ">>
T_InvalidSummary == <<"I","n","v","a","l","i","d"," ","s","u","m","m","a","r","i","z","a","t","i","o","n"," ","r","e","s","p","o","n","s","e",":"," ">>
T_NotionApi == <<"N","o","t","i","o","n"," ","A","P","I"," ","e","r","r","o","r",":"," ">>
T_NotionDbNotFound == <<"N","o","t","i","o","n"," ","d","a","t","a","b","a","s","e"," ","n","o","t"," ","f","o","u","n","d",":"," ">>
T_FFmpegNotFound == <<"F","F","m","p","e","g"," ","n","o","t"," ","f","o","u","n","d","."," ","P","l","e","a","s","e"," ","i","n","s","t","a","l","l"," ","F","F","m","p","e","g",":"," ","b","r","e","w"," ","i","n","s","t","a","l","l"," ","f","f","m","p","e","g"," ","(","m","a","c","O","S",")"," ","o","r"," ","a","p","t"," ","i","n","s","t","a","l","l"," ","f","f","m","p","e","g"," ","(","L","i","n","u","x",")">>
T_FFmpegError == <<"F","F","m","p","e","g"," ","e","r","r","o","r",":"," ">>

M_boom == <<"b","o","o","m">>
M_429 == <<"4","2","9">>
M_Timeout == <<"T","i","m","e","o","u","t">>
M_ECONNRESET == <<"E","C","O","N","N","R","E","S","E","T">>
M_objectNotFound == <<"o","b","j","e","c","t","_","n","o","t","_","f","o","u","n","d">>
M_noDatabase503 == <<"C","o","u","l","d"," ","n","o","t"," ","f","i","n","d"," ","d","a","t","a","b","a","s","e"," ","5","0","3">>
M_RateLimit == <<"R","a","t","e"," ","L","i","m","i","t">>

P_groq == <<"g","r","o","q">>
P_openai == <<"o","p","e","n","a","i">>
P_Groq == <<"G","r","o","q">>
P_OpenAI == <<"O","p","e","n","A","I">>

F_rec == <<"r","e","c",".","m","p","3">>
F_memo == <<"m","e","m","o",".","w","a","v">>

E_ANTHROPIC_API_KEY == <<"A","N","T","H","R","O","P","I","C","_","A","P","I","_","K","E","Y">>
E_NOTION_API_KEY == <<"N","O","T","I","O","N","_","A","P","I","_","K","E","Y">>
E_NOTION_DATABASE_ID == <<"N","O","T","I","O","N","_","D","A","T","A","B","A","S","E","_","I","D">>

D_env == <<"d","b","-","e","n","v">>
D_flag == <<"d","b","-","f","l","a","g">>

\* Messages an SDK call or a subprocess may fail with
Messages == {M_boom, M_429, M_Timeout, M_ECONNRESET, M_objectNotFound,
             M_noDatabase503, M_RateLimit}

-----------------------------------------------------------------------------
(* src/utils/errors.ts *)

\* class CLIError: constructor(message, exitCode, category), name set by the
\* most derived constructor
CLIError(message, exitCode, category) ==
  [name |-> "CLIError", message |-> message, exitCode |-> exitCode,
   category |-> category, isCLIError |-> TRUE]

Named(e, n) == [e EXCEPT !.name = n]

InputErrorCode(message, exitCode) ==
  Named(CLIError(message, exitCode, "input"), "InputError")
InputError(message) == InputErrorCode(message, 1)

FileNotFoundErrorMutant(path) ==
  Named(InputErrorCode(T_FileNotFound \o path, 12), "FileNotFoundError")
FileNotFoundError(path) ==
  Named(InputErrorCode(T_FileNotFound \o path, 2), "FileNotFoundError")

InvalidArgumentError(message) ==
  Named(InputErrorCode(message, 3), "InvalidArgumentError")

ConfigErrorCode(message, exitCode) ==
  Named(CLIError(message, exitCode, "config"), "ConfigError")
ConfigError(message) == ConfigErrorCode(message, 10)

MissingEnvVarError(varName) ==
  Named(ConfigErrorCode(T_MissingEnv \o varName, 11), "MissingEnvVarError")

MissingProviderKeyErrorMutant(provider) ==
  Named(CLIError(T_NoKeyFor \o provider, 21, "transcription"),
        "TranscriptionAPIError")
MissingProviderKeyError(provider) ==
  Named(ConfigErrorCode(T_NoKeyFor \o provider \o T_Set
                          \o ToUpperCase(provider) \o T_ApiKeyEnv, 12),
        "MissingProviderKeyError")

TranscriptionErrorCode(message, exitCode) ==
  Named(CLIError(message, exitCode, "transcription"), "TranscriptionError")
TranscriptionError(message) == TranscriptionErrorCode(message, 20)

TranscriptionAPIErrorMutant(provider, originalError) ==
  [name |-> "TranscriptionAPIError", message |-> originalError.message,
   exitCode |-> 21, category |-> "transcription", isCLIError |-> TRUE]
TranscriptionAPIError(provider, originalError) ==
  Named(TranscriptionErrorCode(
          provider \o T_TranscriptionFailed \o originalError.message, 21),
        "TranscriptionAPIError")

\* Math.round(x / 1024 / 1024) for a non-negative integer x
RoundMB(x) == (2 * x + 1048576) \div (2 * 1048576)

TranscriptionFileTooLargeError(fileSize, maxSize) ==
  Named(TranscriptionErrorCode(
          T_TooLarge \o NumToString(RoundMB(fileSize)) \o T_MaxSizeIs
            \o NumToString(RoundMB(maxSize)) \o T_MB, 22),
        "TranscriptionFileTooLargeError")

SummarizationErrorCode(message, exitCode) ==
  Named(CLIError(message, exitCode, "summarization"), "SummarizationError")
SummarizationError(message) == SummarizationErrorCode(message, 30)

SummarizationAPIErrorMutant(originalError) ==
  [name |-> "InvalidSummarizationResponseError",
   message |-> originalError.message, exitCode |-> 32,
   category |-> "summarization", isCLIError |-> TRUE]
SummarizationAPIError(originalError) ==
  Named(SummarizationErrorCode(T_ClaudeFailed \o originalError.message, 31),
        "SummarizationAPIError")

InvalidSummarizationResponseError(message) ==
  Named(SummarizationErrorCode(T_InvalidSummary \o message, 32),
        "InvalidSummarizationResponseError")

NotionErrorCode(message, exitCode) ==
  Named(CLIError(message, exitCode, "notion"), "NotionError")
NotionError(message) == NotionErrorCode(message, 40)

NotionAPIError(originalError) ==
  Named(NotionErrorCode(T_NotionApi \o originalError.message, 41),
        "NotionAPIError")

NotionDatabaseNotFoundError(databaseId) ==
  Named(NotionErrorCode(T_NotionDbNotFound \o databaseId, 42),
        "NotionDatabaseNotFoundError")

ProcessingErrorCode(message, exitCode) ==
  Named(CLIError(message, exitCode, "processing"), "ProcessingError")
ProcessingError(message) == ProcessingErrorCode(message, 50)

FFmpegNotFoundError == Named(ProcessingErrorCode(T_FFmpegNotFound, 51),
                             "FFmpegNotFoundError")

FFmpegErrorMutant(message) ==
  [name |-> "FFmpegError", message |-> message, exitCode |-> 51,
   category |-> "processing", isCLIError |-> TRUE]
FFmpegError(message) ==
  Named(ProcessingErrorCode(T_FFmpegError \o message, 52), "FFmpegError")

\* A plain `new Error(message)`
PlainError(message) ==
  [name |-> "Error", message |-> message, exitCode |-> 0, category |-> "",
   isCLIError |-> FALSE]

-----------------------------------------------------------------------------
(* The errors specification: every class of the hierarchy is constructed   *)
(* the way its constructor allows, from bounded argument sets.             *)

NoError == [none |-> TRUE]

ProviderNames == {P_groq, P_openai}
ProviderLabels == {P_Groq, P_OpenAI}
EnvVarNames == {E_ANTHROPIC_API_KEY, E_NOTION_API_KEY, E_NOTION_DATABASE_ID}
Paths == {F_rec, F_memo}
DatabaseIds == {D_env, D_flag}
Sizes == {0, 524288, 26214401, 62914560}

Constructible ==
       {InputError(m) : m \in Messages}
  \cup {FileNotFoundError(p) : p \in Paths}
  \cup {InvalidArgumentError(m) : m \in Messages}
  \cup {ConfigError(m) : m \in Messages}
  \cup {MissingEnvVarError(v) : v \in EnvVarNames}
  \cup {MissingProviderKeyError(p) : p \in ProviderNames}
  \cup {TranscriptionError(m) : m \in Messages}
  \cup {TranscriptionAPIError(p, PlainError(m)) :
          p \in ProviderLabels, m \in Messages}
  \cup {TranscriptionFileTooLargeError(s, 26214400) : s \in Sizes}
  \cup {SummarizationError(m) : m \in Messages}
  \cup {SummarizationAPIError(PlainError(m)) : m \in Messages}
  \cup {InvalidSummarizationResponseError(m) : m \in Messages}
  \cup {NotionError(m) : m \in Messages}
  \cup {NotionAPIError(PlainError(m)) : m \in Messages}
  \cup {NotionDatabaseNotFoundError(d) : d \in DatabaseIds}
  \cup {ProcessingError(m) : m \in Messages}
  \cup {FFmpegNotFoundError}
  \cup {FFmpegError(m) : m \in Messages}

InitErrors == made = NoError

\* `new <Class>(...)` for any class of the hierarchy
Construct ==
  /\ made' \in Constructible
  /\ made' # made

-----------------------------------------------------------------------------
(* Values shared by the components *)

\* JavaScript's undefined, for a value the code only tests or compares
Absent == "(undefined)"
Truthy(v) == v # Absent /\ v # ""

\* The characters of the strings that end up inside messages
Chars(str) ==
  CASE str = "groq"    -> P_groq
    [] str = "openai"  -> P_openai
    [] str = "Groq"    -> P_Groq
    [] str = "OpenAI"  -> P_OpenAI
    [] str = "db-env"  -> D_env
    [] str = "db-flag" -> D_flag
    [] str = "bogus"   -> <<"b","o","g","u","s">>
    [] str = "whisper" -> <<"w","h","i","s","p","e","r">>

Ok(v)    == [ok |-> TRUE, value |-> v]
Throw(e) == [ok |-> FALSE, error |-> e]

-----------------------------------------------------------------------------
(* src/config.ts *)

\* loadConfig(requestedProvider) under environment e: requireEnv of the three
\* required variables in order, then the provider default and its fallback
loadConfig(e, requestedProvider) ==
  IF ~Truthy(e.ANTHROPIC_API_KEY)
    THEN Throw(MissingEnvVarError(E_ANTHROPIC_API_KEY))
  ELSE IF ~Truthy(e.NOTION_API_KEY)
    THEN Throw(MissingEnvVarError(E_NOTION_API_KEY))
  ELSE IF ~Truthy(e.NOTION_DATABASE_ID)
    THEN Throw(MissingEnvVarError(E_NOTION_DATABASE_ID))
  ELSE
    LET groqApiKey   == e.GROQ_API_KEY
        openaiApiKey == e.OPENAI_API_KEY
        envProvider  == e.TRANSCRIPTION_PROVIDER
        d0 == IF Truthy(requestedProvider) THEN requestedProvider
              ELSE IF Truthy(envProvider) THEN envProvider
              ELSE "groq"
        groqMissing == d0 = "groq" /\ ~Truthy(groqApiKey)
        d1 == IF groqMissing /\ Truthy(openaiApiKey) THEN "openai" ELSE d0
        openaiMissing == d1 = "openai" /\ ~Truthy(openaiApiKey)
        d2 == IF openaiMissing /\ Truthy(groqApiKey) THEN "groq" ELSE d1
    IN
    IF groqMissing /\ ~Truthy(openaiApiKey)
      THEN Throw(MissingProviderKeyError(P_groq))
    ELSE IF openaiMissing /\ ~Truthy(groqApiKey)
      THEN Throw(MissingProviderKeyError(P_openai))
    ELSE Ok([anthropicApiKey |-> e.ANTHROPIC_API_KEY,
             notionApiKey |-> e.NOTION_API_KEY,
             notionDatabaseId |-> e.NOTION_DATABASE_ID,
             groqApiKey |-> groqApiKey,
             openaiApiKey |-> openaiApiKey,
             defaultTranscriptionProvider |-> d2])

-----------------------------------------------------------------------------
(* src/audio/chunk.ts: the size ceiling *)

IsDigit(c) == \E i \in 1..10 : DigitChar[i] = c
DigitValue(c) == (CHOOSE i \in 1..10 : DigitChar[i] = c) - 1
IsWhiteSpace(c) == c \in {" ", "\t", "\n", "\r"}

RECURSIVE TrimStart(_)
TrimStart(s) ==
  IF s # <<>> /\ IsWhiteSpace(Head(s)) THEN TrimStart(Tail(s)) ELSE s

RECURSIVE LeadingDigits(_)
LeadingDigits(s) ==
  IF s # <<>> /\ IsDigit(Head(s))
  THEN <<Head(s)>> \o LeadingDigits(Tail(s))
  ELSE <<>>

RECURSIVE DecimalValue(_)
DecimalValue(ds) ==
  IF ds = <<>> THEN 0
  ELSE 10 * DecimalValue(SubSeq(ds, 1, Len(ds) - 1)) + DigitValue(ds[Len(ds)])

\* parseInt(s, 10): leading white space, an optional sign, then the longest
\* run of digits; NaN when there is none
parseInt(s) ==
  LET t      == TrimStart(s)
      signed == t # <<>> /\ Head(t) \in {"+", "-"}
      body   == IF signed THEN Tail(t) ELSE t
      ds     == LeadingDigits(body)
  IN IF ds = <<>> THEN [nan |-> TRUE, value |-> 0]
     ELSE [nan |-> FALSE,
           value |-> IF signed /\ Head(t) = "-" THEN 0 - DecimalValue(ds)
                     ELSE DecimalValue(ds)]

-----------------------------------------------------------------------------
(* JavaScript numbers that are not integers: durations and chunk spans *)

\* A natural number of any size: its digits in base 2^15, most significant
\* first, no leading zero; <<>> is 0
LimbBits == 15
Radix == 32768
Pow2(k) == 2 ^ k

RECURSIVE StripZeros(_)
StripZeros(b) == IF b # <<>> /\ Head(b) = 0 THEN StripZeros(Tail(b)) ELSE b

Zeros(n) == [i \in 1..n |-> 0]

RECURSIVE LimbsOfNat(_)
LimbsOfNat(n) ==
  IF n = 0 THEN <<>> ELSE LimbsOfNat(n \div Radix) \o <<n % Radix>>

RECURSIVE NatOfLimbs(_)
NatOfLimbs(b) ==
  IF b = <<>> THEN 0
  ELSE Radix * NatOfLimbs(SubSeq(b, 1, Len(b) - 1)) + b[Len(b)]

PadTo(b, n) == Zeros(n - Len(b)) \o b

\* digits k..1 of a + b + carry, for a and b of equal length
RECURSIVE AddFrom(_, _, _, _)
AddFrom(a, b, k, carry) ==
  IF k = 0 THEN <<carry>>
  ELSE LET t == a[k] + b[k] + carry
       IN AddFrom(a, b, k - 1, t \div Radix) \o <<t % Radix>>

BigAdd(a, b) ==
  LET n == Max(Len(a), Len(b))
  IN StripZeros(AddFrom(PadTo(a, n), PadTo(b, n), n, 0))

\* a - b for a >= b
RECURSIVE SubFrom(_, _, _, _)
SubFrom(a, b, k, borrow) ==
  IF k = 0 THEN <<>>
  ELSE LET t == a[k] - b[k] - borrow
       IN SubFrom(a, b, k - 1, IF t < 0 THEN 1 ELSE 0)
            \o <<(t + Radix) % Radix>>

BigSub(a, b) ==
  LET n == Max(Len(a), Len(b))
  IN StripZeros(SubFrom(PadTo(a, n), PadTo(b, n), n, 0))

BigLess(a, b) ==
  \/ Len(a) < Len(b)
  \/ /\ Len(a) = Len(b)
     /\ \E i \in 1..Len(a) :
          a[i] < b[i] /\ \A j \in 1..(i - 1) : a[j] = b[j]

\* a * k for a natural k below 2^15
RECURSIVE MulFrom(_, _, _, _)
MulFrom(a, k, i, carry) ==
  IF i = 0 THEN <<carry>>
  ELSE LET t == a[i] * k + carry
       IN MulFrom(a, k, i - 1, t \div Radix) \o <<t % Radix>>

BigMulSmall(a, k) == StripZeros(MulFrom(a, k, Len(a), 0))

\* quotient and remainder of a by a positive n below 2^15, by long division
RECURSIVE DivFrom(_, _, _, _)
DivFrom(a, n, i, r) ==
  IF i > Len(a) THEN [q |-> <<>>, r |-> r]
  ELSE LET t == Radix * r + a[i]
           down == DivFrom(a, n, i + 1, t % n)
       IN [q |-> <<t \div n>> \o down.q, r |-> down.r]

BigDivSmall(a, n) ==
  LET qr == DivFrom(a, n, 1, 0) IN [q |-> StripZeros(qr.q), r |-> qr.r]

\* the number of binary digits of a
BitLength(a) ==
  IF a = <<>> THEN 0
  ELSE LimbBits * (Len(a) - 1)
         + (CHOOSE k \in 1..LimbBits : Pow2(k - 1) <= a[1] /\ a[1] < Pow2(k))

\* a * 2^s
ShiftLeft(a, s) ==
  IF a = <<>> THEN <<>>
  ELSE BigMulSmall(a, Pow2(s % LimbBits)) \o Zeros(s \div LimbBits)

\* floor(a / 2^s), and whether anything non-zero was shifted out
ShiftRight(a, s) ==
  LET keepLen == Max(Len(a) - (s \div LimbBits), 0)
      dropped == SubSeq(a, keepLen + 1, Len(a))
      qr == BigDivSmall(SubSeq(a, 1, keepLen), Pow2(s % LimbBits))
  IN [q |-> qr.q,
      lost |-> qr.r # 0 \/ \E i \in 1..Len(dropped) : dropped[i] # 0]

IsOdd(a) == a # <<>> /\ a[Len(a)] % 2 = 1

\* the number of zero binary digits a non-zero a ends with
TrailingZeroBits(a) ==
  LET last == CHOOSE i \in 1..Len(a) :
                a[i] # 0 /\ \A j \in (i + 1)..Len(a) : a[j] = 0
  IN LimbBits * (Len(a) - last)
       + (CHOOSE k \in 0..(LimbBits - 1) :
            a[last] % Pow2(k) = 0 /\ a[last] % Pow2(k + 1) # 0)

\* A non-negative IEEE 754 double: m * 2^e with m an odd natural of at most
\* 53 binary digits; zero is m = <<>>, e = 0
Double(a, e) ==
  LET b == StripZeros(a) IN
  IF b = <<>> THEN [m |-> <<>>, e |-> 0]
  ELSE LET z == TrailingZeroBits(b)
       IN [m |-> ShiftRight(b, z).q, e |-> e + z]

\* The double nearest to a * 2^e (plus a positive amount below 2^e when
\* sticky), ties to even
RoundDouble(a, e, sticky) ==
  LET b == StripZeros(a)
      s == BitLength(b) - 53
  IN IF s <= 0 THEN Double(b, e)
     ELSE LET above == ShiftRight(b, s - 1)
              keep == ShiftRight(above.q, 1).q
              up == IsOdd(above.q) /\ (sticky \/ above.lost \/ IsOdd(keep))
          IN Double(IF up THEN BigAdd(keep, <<1>>) ELSE keep, e + s)

DoubleOfNat(n) == Double(LimbsOfNat(n), 0)

\* x / n for a double x and a positive integer n below 2^15
DivDouble(x, n) ==
  LET qr == BigDivSmall(x.m \o Zeros(6), n)
  IN RoundDouble(qr.q, x.e - 6 * LimbBits, qr.r # 0)

\* k * x for a natural k below 2^15 and a double x
MulDouble(k, x) == RoundDouble(BigMulSmall(x.m, k), x.e, FALSE)

\* the mantissas of x and y over their smaller exponent
Aligned(x, y) ==
  LET e == Min(x.e, y.e)
  IN [a |-> ShiftLeft(x.m, x.e - e), b |-> ShiftLeft(y.m, y.e - e), e |-> e]

LessDouble(x, y) ==
  IF x.m = <<>> THEN y.m # <<>>
  ELSE IF y.m = <<>> THEN FALSE
  ELSE LET al == Aligned(x, y) IN BigLess(al.a, al.b)

\* Math.min(x, y)
MinDouble(x, y) == IF LessDouble(y, x) THEN y ELSE x

\* x + y, and x - y for x >= y
AddDouble(x, y) ==
  IF x.m = <<>> THEN y ELSE IF y.m = <<>> THEN x
  ELSE LET al == Aligned(x, y) IN RoundDouble(BigAdd(al.a, al.b), al.e, FALSE)

SubDouble(x, y) ==
  IF y.m = <<>> THEN x
  ELSE LET al == Aligned(x, y) IN RoundDouble(BigSub(al.a, al.b), al.e, FALSE)

\* Math.round(x) of a double below 2^30: the nearest integer, halves upwards
MathRound(x) ==
  IF x.e >= 0 THEN NatOfLimbs(ShiftLeft(x.m, x.e))
  ELSE (NatOfLimbs(ShiftRight(x.m, (0 - x.e) - 1).q) + 1) \div 2

\* parseFloat(text) for the decimal texts ffprobe prints: digits, then
\* optionally a point and at most six digits, nine digits in all; NaN for a
\* text that starts otherwise
Pow10(k) == 10 ^ k

parseFloat(text) ==
  LET t == TrimStart(text)
      whole == LeadingDigits(t)
      rest == SubSeq(t, Len(whole) + 1, Len(t))
      frac == IF rest # <<>> /\ Head(rest) = "." THEN LeadingDigits(Tail(rest))
              ELSE <<>>
      thousands == Pow10(Max(Len(frac) - 3, 0))
      units == Pow10(Min(Len(frac), 3))
  IN IF whole = <<>> /\ frac = <<>>
     THEN [nan |-> TRUE, value |-> Double(<<>>, 0)]
     ELSE LET digits == LimbsOfNat(DecimalValue(whole \o frac))
              upper == BigDivSmall(digits \o Zeros(6), thousands)
              lower == BigDivSmall(upper.q, units)
          IN [nan |-> FALSE,
              value |-> RoundDouble(lower.q, 0 - 6 * LimbBits,
                                    upper.r # 0 \/ lower.r # 0)]

-----------------------------------------------------------------------------
(* src/audio/chunk.ts: the ceiling, the chunk count and the spans *)

MAX_FILE_SIZE_OPENAI == 25 * 1024 * 1024
MAX_FILE_SIZE_GROQ_DEFAULT == 25 * 1024 * 1024

\* getMaxFileSize(): reads TRANSCRIPTION_PROVIDER and GROQ_MAX_FILE_SIZE_MB
\* from the environment; an unset and an empty override are both falsy
getMaxFileSize(e) ==
  LET provider == e.TRANSCRIPTION_PROVIDER IN
  IF provider = "groq"
  THEN LET customLimitMB == e.GROQ_MAX_FILE_SIZE_MB
           limitMB == parseInt(customLimitMB)
       IN IF customLimitMB # <<>> /\ ~limitMB.nan /\ limitMB.value > 0
          THEN limitMB.value * 1024 * 1024
          ELSE MAX_FILE_SIZE_GROQ_DEFAULT
  ELSE MAX_FILE_SIZE_OPENAI

needsChunking(metadata, e) == metadata.fileSize > getMaxFileSize(e)

\* Math.ceil(a / b) for a >= 0, b > 0
CeilDiv(a, b) == (a + b - 1) \div b

calculateChunkCount(metadata, e) ==
  Max(CeilDiv(metadata.fileSize, getMaxFileSize(e)), 1)

\* basename(filePath, ".mp3").replace(/\.[^/.]+$/, "")
EndsWith(s, suffix) ==
  /\ Len(suffix) <= Len(s)
  /\ SubSeq(s, Len(s) - Len(suffix) + 1, Len(s)) = suffix

LastIndexOf(s, c) ==
  IF \E i \in 1..Len(s) : s[i] = c
  THEN CHOOSE i \in 1..Len(s) : s[i] = c /\ \A j \in (i + 1)..Len(s) : s[j] # c
  ELSE 0

BaseNameOf(filePath) ==
  LET file == SubSeq(filePath, LastIndexOf(filePath, "/") + 1, Len(filePath))
      noMp3 == IF EndsWith(file, <<".","m","p","3">>) /\ Len(file) > 4
               THEN SubSeq(file, 1, Len(file) - 4) ELSE file
      dot == LastIndexOf(noMp3, ".")
  IN IF dot > 0 /\ dot < Len(noMp3) THEN SubSeq(noMp3, 1, dot - 1) ELSE noMp3

\* join(tempDir, `${baseName}_chunk_${i}.mp3`); the temporary directory of a
\* run is one fixed fresh directory
TempDir == <<"/","t","m","p","/","v","2","n","/">>

ChunkPath(filePath, i) ==
  TempDir \o BaseNameOf(filePath) \o <<"_","c","h","u","n","k","_">>
    \o NumToString(i) \o <<".","m","p","3">>

SpanChunkMutant(filePath, metadata, spanLength, i) ==
  [path |-> ChunkPath(filePath, i), index |-> i,
   start |-> MulDouble(i, spanLength), end |-> metadata.duration]
\* The chunk chunkAudio builds for span i, spanLength being its local
\* chunkDuration
SpanChunk(filePath, metadata, spanLength, i) ==
  LET start == MulDouble(i, spanLength)
      end   == MinDouble(MulDouble(i + 1, spanLength), metadata.duration)
  IN [path |-> ChunkPath(filePath, i), index |-> i, start |-> start,
      end |-> end]

WholeFileChunkMutant(filePath, metadata) ==
  [path |-> ChunkPath(filePath, 0), index |-> 0, start |-> DoubleOfNat(0),
   end |-> metadata.duration]
\* The single chunk that stands for the whole file
WholeFileChunk(filePath, metadata) ==
  [path |-> filePath, index |-> 0, start |-> DoubleOfNat(0),
   end |-> metadata.duration]

-----------------------------------------------------------------------------
(* src/utils/retry.ts *)

S_rate_limit == <<"r","a","t","e"," ","l","i","m","i","t">>
S_429 == <<"4","2","9">>
S_too_many_requests == <<"t","o","o"," ","m","a","n","y"," ","r","e","q","u","e","s","t","s">>
S_timeout == <<"t","i","m","e","o","u","t">>
S_econnreset == <<"e","c","o","n","n","r","e","s","e","t">>
S_econnrefused == <<"e","c","o","n","n","r","e","f","u","s","e","d">>
S_503 == <<"5","0","3">>
S_502 == <<"5","0","2">>
S_CouldNotFindDatabase == <<"C","o","u","l","d"," ","n","o","t"," ","f","i","n","d"," ","d","a","t","a","b","a","s","e">>
S_object_not_found == <<"o","b","j","e","c","t","_","n","o","t","_","f","o","u","n","d">>

DEFAULT_OPTIONS ==
  [maxAttempts |-> 3, initialDelayMs |-> 1000, maxDelayMs |-> 30000,
   backoffMultiplier |-> 2, retryableErrors |-> "always"]

isRateLimitError(error) ==
  LET message == ToLowerCase(error.message) IN
    \/ Includes(message, S_rate_limit)
    \/ Includes(message, S_429)
    \/ Includes(message, S_too_many_requests)

isTransientErrorMutant(error) == isRateLimitError(error)
isTransientError(error) ==
  LET message == ToLowerCase(error.message) IN
    \/ isRateLimitError(error)
    \/ Includes(message, S_timeout)
    \/ Includes(message, S_econnreset)
    \/ Includes(message, S_econnrefused)
    \/ Includes(message, S_503)
    \/ Includes(message, S_502)

\* The retryableErrors callback of createVoiceNotePage
notionRetryableMutant(error) == isTransientError(error)
notionRetryable(error) ==
  IF \/ Includes(error.message, S_CouldNotFindDatabase)
     \/ Includes(error.message, S_object_not_found)
  THEN FALSE
  ELSE isTransientError(error)

retryableErrorsMutant(tag, error) == TRUE
\* opts.retryableErrors(lastError); the callback is named by a tag
retryableErrors(tag, error) ==
  CASE tag = "always"    -> TRUE
    [] tag = "transient" -> isTransientError(error)
    [] tag = "notion"    -> notionRetryable(error)

\* const opts = { ...DEFAULT_OPTIONS, ...options }
MergeOptions(given) ==
  [k \in DOMAIN DEFAULT_OPTIONS |->
     IF k \in DOMAIN given THEN given[k] ELSE DEFAULT_OPTIONS[k]]

\* What fn throws: an Error object or any other value; `at` is the invocation
\* that threw it (the identity of the thrown object)
Thrown(isError, message, at) ==
  [isError |-> isError, message |-> message, at |-> at, fresh |-> FALSE]

AsErrorMutant(error) ==
  [isError |-> TRUE, message |-> error.message, at |-> error.at,
   fresh |-> TRUE]
\* lastError = error instanceof Error ? error : new Error(String(error))
AsError(error) ==
  IF error.isError THEN error
  ELSE [isError |-> TRUE, message |-> error.message, at |-> error.at,
        fresh |-> TRUE]

\* The state of retry() on entry: opts merged, delay = opts.initialDelayMs,
\* attempt = 1; with maxAttempts < 1 the loop body never runs and
\* `throw lastError!` throws undefined
RetryEntry(for, arg, given) ==
  LET opts == MergeOptions(given) IN
  [rpc |-> IF 1 <= opts.maxAttempts THEN "run" ELSE "threw",
   rFor |-> for, rArg |-> arg, rOpts |-> opts, attempt |-> 1,
   delay |-> opts.initialDelayMs, lastError |-> Undefined,
   rValue |-> Undefined, rThrown |-> <<>>, rCalls |-> 0, sleeps |-> <<>>,
   warns |-> <<>>]

RetryIdle ==
  [rpc |-> "idle", rFor |-> "none", rArg |-> 0, rOpts |-> DEFAULT_OPTIONS,
   attempt |-> 1,
   delay |-> 0, lastError |-> Undefined, rValue |-> Undefined,
   rThrown |-> <<>>, rCalls |-> 0, sleeps |-> <<>>, warns |-> <<>>]

RetryIs(st) ==
  /\ rpc = st.rpc /\ rFor = st.rFor /\ rArg = st.rArg /\ rOpts = st.rOpts
  /\ attempt = st.attempt /\ delay = st.delay /\ lastError = st.lastError
  /\ rValue = st.rValue /\ rThrown = st.rThrown /\ rCalls = st.rCalls
  /\ sleeps = st.sleeps /\ warns = st.warns

\* A caller's `await retry(fn, options)`
RetryBecomes(st) ==
  /\ rpc' = st.rpc /\ rFor' = st.rFor /\ rArg' = st.rArg
  /\ rOpts' = st.rOpts
  /\ attempt' = st.attempt /\ delay' = st.delay /\ lastError' = st.lastError
  /\ rValue' = st.rValue /\ rThrown' = st.rThrown /\ rCalls' = st.rCalls
  /\ sleeps' = st.sleeps /\ warns' = st.warns

\* The text a provider stub answers for a chunk: a, b, c, ... by chunk index
StubText(chunk) ==
  CASE chunk.index = 0 -> "a"
    [] chunk.index = 1 -> "b"
    [] chunk.index = 2 -> "c"
    [] OTHER -> "d"

\* JSON values, as JSON.parse returns them: the type, and the content under a
\* name of its own for each type
JString(str) == [t |-> "string", v |-> str]
JArray(items) == [t |-> "array", items |-> items]
JObject(fields) == [t |-> "object", fields |-> fields]
JNull == [t |-> "null", null |-> TRUE]
JUndefined == [t |-> "undefined", undefined |-> TRUE]
JNumber(n) == [t |-> "number", n |-> n]
JBoolean(b) == [t |-> "boolean", b |-> b]

\* A messages.create response: whether it holds a text block, the first
\* characters of that text, whether the text (code fence stripped) parses as
\* JSON, and the value it parses to
ClaudeResponse(hasText, head, parses, value) ==
  [hasText |-> hasText, head |-> head, parses |-> parses, value |-> value]

R_summary ==
  ClaudeResponse(TRUE, <<"{">>, TRUE,
    JObject([title |-> JString("Weekly sync"),
             summary |-> JString("We met."),
             main_points |-> JArray(<<JString("budget"), JString("hiring")>>),
             action_items |-> JArray(<<JString("send notes")>>)]))

R_noItems ==
  ClaudeResponse(TRUE, <<"{">>, TRUE,
    JObject([title |-> JString("Memo"),
             summary |-> JString("A thought."),
             main_points |-> JArray(<<>>),
             action_items |-> JArray(<<>>)]))

R_titleOnly ==
  ClaudeResponse(TRUE, <<"{">>, TRUE, JObject([title |-> JString("x")]))

R_notJson ==
  ClaudeResponse(TRUE, <<"S","o","r","r","y">>, FALSE, JUndefined)

ClaudeResponses == {R_summary, R_noItems, R_titleOnly, R_notJson}

\* A createPage response: { apiResponse: {id, url} }, or the page object
\* itself; an absent id or url is the empty text
NotionResponse(shape, id, url) == [shape |-> shape, id |-> id, url |-> url]

NotionResponses ==
  {NotionResponse("apiResponse", <<"p","-","1">>, <<"h","t","t","p","s",":","/","/","n","/","p","1">>),
   NotionResponse("page", <<"p","-","1">>, <<>>),
   NotionResponse("page", <<>>, <<>>)}

\* What one invocation of the caller's fn may do
FnReturns(for) ==
  CASE for = "standalone" -> {"v"}
    [] for \in {"groq", "openai"} -> {StubText(rArg)}
    [] for = "claude" -> ClaudeResponses
    [] for = "notion" -> NotionResponses

FnThrows(for) ==
  CASE for = "standalone" ->
         {[isError |-> TRUE, message |-> m] :
            m \in {M_boom, M_Timeout, M_noDatabase503}}
           \cup {[isError |-> FALSE, message |-> M_429]}
    [] for \in {"groq", "openai"} ->
         {[isError |-> TRUE, message |-> m] : m \in {M_boom, M_429}}
    [] for = "claude" ->
         {[isError |-> TRUE, message |-> m] : m \in {M_boom, M_Timeout}}
    [] for = "notion" ->
         {[isError |-> TRUE, message |-> m] :
            m \in {M_boom, M_ECONNRESET, M_noDatabase503}}

\* if (attempt === opts.maxAttempts) break
IsLastAttempt(a, maxAttempts) == a = maxAttempts

\* The loop of retry() returns to the event loop at `await fn()` and at
\* `await sleep(delay)`; one action per stretch between them.
\* Head of an iteration: `attempt <= opts.maxAttempts` holds and fn is
\* invoked; its promise is awaited
RetryInvoke ==
  /\ rpc = "run"
  /\ attempt <= rOpts.maxAttempts
  /\ rCalls' = rCalls + 1
  /\ calls' = Append(calls, [op |-> rFor, arg |-> rArg, attempt |-> attempt])
  /\ rpc' = "awaitFn"
  /\ UNCHANGED <<rFor, rArg, rOpts, attempt, delay, lastError, rValue,
                 rThrown, sleeps, warns, faultsLeft>>
  /\ UNCHANGED <<tmpFiles, stdout, cliVars, audioVars, transVars, sumVars,
                 notionVars>>

\* The promise of fn settles: on success retry() returns its value; on
\* failure it records lastError and either leaves the loop (last attempt, or
\* the predicate rejects the error) and rethrows, or warns and starts
\* sleep(delay); `returns` and `throws` are what fn may return and throw
RetrySettleOf(returns, throws) ==
  /\ rpc = "awaitFn"
  /\ UNCHANGED <<rFor, rArg, rOpts, rCalls, calls, attempt, delay>>
  /\ \/ \E v \in returns :
          /\ rpc' = "returned"
          /\ rValue' = v
          /\ UNCHANGED <<lastError, rThrown, sleeps, warns, faultsLeft>>
     \/ \E t \in throws :
          LET error == Thrown(t.isError, t.message, rCalls)
              le    == AsError(error)
          IN
          /\ faultsLeft > 0
          /\ faultsLeft' = faultsLeft - 1
          /\ rThrown' = Append(rThrown, error)
          /\ lastError' = le
          /\ IF IsLastAttempt(attempt, rOpts.maxAttempts)
                  \/ ~retryableErrors(rOpts.retryableErrors, le)
             THEN /\ rpc' = "threw"
                  /\ UNCHANGED <<sleeps, warns>>
             ELSE /\ warns' = Append(warns, [attempt |-> attempt,
                                             delay |-> delay,
                                             message |-> le.message])
                  /\ sleeps' = Append(sleeps, delay)
                  /\ rpc' = "sleep"
          /\ UNCHANGED rValue
  /\ UNCHANGED <<tmpFiles, stdout, cliVars, audioVars, transVars, sumVars,
                 notionVars>>

RetrySettle == RetrySettleOf(FnReturns(rFor), FnThrows(rFor))

\* The timer of sleep(delay) fires: `delay = Math.min(delay *
\* opts.backoffMultiplier, opts.maxDelayMs)`, then `attempt++` and the loop
\* test
RetryWake ==
  /\ rpc = "sleep"
  /\ delay' = Min(delay * rOpts.backoffMultiplier, rOpts.maxDelayMs)
  /\ attempt' = attempt + 1
  /\ rpc' = IF attempt + 1 <= rOpts.maxAttempts THEN "run" ELSE "threw"
  /\ UNCHANGED <<rFor, rArg, rOpts, rCalls, calls, lastError, rValue,
                 rThrown, sleeps, warns, faultsLeft>>
  /\ UNCHANGED <<tmpFiles, stdout, cliVars, audioVars, transVars, sumVars,
                 notionVars>>

-----------------------------------------------------------------------------
(* src/audio/probe.ts, src/audio/index.ts, src/audio/chunk.ts *)

Call(op, arg) == [op |-> op, arg |-> arg, attempt |-> 1]

\* The metadata probeAudio builds from the size of the file and the
\* duration text ffprobe prints: parseFloat(format.duration) || 0
MetadataOf(durationText, fileSize) ==
  LET parsed == parseFloat(durationText)
  IN [duration |-> IF parsed.nan THEN DoubleOfNat(0) ELSE parsed.value,
      format |-> "mp3", bitrate |-> 128000, channels |-> 1,
      sampleRate |-> 44100, fileSize |-> fileSize]

\* What ffprobe may report about the file: one minute of audio, in a file of
\* exactly 25 MB or a byte larger
D_minute == <<"6","0",".","0","0","0","0","0","0">>

MetadataChoices ==
  {MetadataOf(D_minute, size) :
     size \in {MAX_FILE_SIZE_OPENAI, MAX_FILE_SIZE_OPENAI + 1}}

FailedProbes ==
  {[kind |-> "exit", stderr |-> M_boom], [kind |-> "malformed"],
   [kind |-> "noAudio"]}

ProbeOutcomes ==
  FailedProbes \cup {[kind |-> "ok", metadata |-> m] : m \in MetadataChoices}

T_FailedToProbe == <<"F","a","i","l","e","d"," ","t","o"," ","p","r","o","b","e"," ","a","u","d","i","o"," ","f","i","l","e",":"," ">>
T_NoAudioStream == <<"N","o"," ","a","u","d","i","o"," ","s","t","r","e","a","m"," ","f","o","u","n","d"," ","i","n"," ","f","i","l","e">>
T_FailedToCreateChunk == <<"F","a","i","l","e","d"," ","t","o"," ","c","r","e","a","t","e"," ","c","h","u","n","k"," ">>
T_UnexpectedToken == <<"U","n","e","x","p","e","c","t","e","d"," ","t","o","k","e","n">>

\* processAudio(filePath) is entered: its first await is checkFFmpeg's spawn
AudioBecomes(filePath) ==
  /\ apc' = "checkFFmpeg"
  /\ aPath' = filePath
  /\ aMeta' = Undefined
  /\ chunkDuration' = Undefined
  /\ aChunks' = <<>>
  /\ aError' = NoError
  /\ UNCHANGED cleanVars

\* cleanupChunks has not been called
CleanIdle == kpc = "idle" /\ kChunks = <<>> /\ kIndex = 0

AudioIdle ==
  /\ apc = "idle" /\ aPath = <<>> /\ aMeta = Undefined
  /\ chunkDuration = Undefined /\ aChunks = <<>>
  /\ aError = NoError
  /\ CleanIdle

\* checkFFmpeg(): spawn `ffprobe -version`; a failed spawn and a non-zero
\* exit both become FFmpegNotFoundError
CheckFFmpeg ==
  /\ apc = "checkFFmpeg"
  /\ calls' = Append(calls, Call("ffprobe -version", [path |-> aPath]))
  /\ \E found \in BOOLEAN :
       IF found
       THEN apc' = "exists" /\ UNCHANGED aError
       ELSE apc' = "threw" /\ aError' = FFmpegNotFoundError
  /\ UNCHANGED <<aPath, aMeta, chunkDuration, aChunks, tmpFiles, cleanVars>>
  /\ UNCHANGED <<stdout, cliVars, transVars, sumVars, notionVars, retryVars>>

\* processAudio: if (!(await file.exists())) throw new FileNotFoundError
AudioFileExists ==
  /\ apc = "exists"
  /\ calls' = Append(calls, Call("exists", [path |-> aPath, by |-> "processAudio"]))
  /\ IF fileExists
     THEN apc' = "probe" /\ UNCHANGED aError
     ELSE apc' = "threw" /\ aError' = FileNotFoundError(aPath)
  /\ UNCHANGED <<aPath, aMeta, chunkDuration, aChunks, tmpFiles, cleanVars>>
  /\ UNCHANGED <<stdout, cliVars, transVars, sumVars, notionVars, retryVars>>

\* probeAudio() with one of the given outcomes of ffprobe, then
\* needsChunking: processAudio either calls chunkAudio or returns the whole
\* file as the single chunk
ProbeAudioOf(outcomes) ==
  /\ apc = "probe"
  /\ calls' = Append(calls, Call("ffprobe", [path |-> aPath]))
  /\ \E out \in outcomes :
       CASE out.kind = "exit" ->
              /\ apc' = "threw"
              /\ aError' = FFmpegError(T_FailedToProbe \o out.stderr)
              /\ UNCHANGED <<aMeta, aChunks>>
         [] out.kind = "malformed" ->
              /\ apc' = "threw"
              /\ aError' = PlainError(T_UnexpectedToken)
              /\ UNCHANGED <<aMeta, aChunks>>
         [] out.kind = "noAudio" ->
              /\ apc' = "threw"
              /\ aError' = FFmpegError(T_NoAudioStream)
              /\ UNCHANGED <<aMeta, aChunks>>
         [] out.kind = "ok" ->
              /\ aMeta' = out.metadata
              /\ UNCHANGED aError
              /\ IF needsChunking(out.metadata, env)
                 THEN apc' = "chunkAudio" /\ aChunks' = <<>>
                 ELSE /\ apc' = "done"
                      /\ aChunks' = <<WholeFileChunk(aPath, out.metadata)>>
  /\ UNCHANGED <<aPath, chunkDuration, tmpFiles, cleanVars>>
  /\ UNCHANGED <<stdout, cliVars, transVars, sumVars, notionVars, retryVars>>

ProbeAudio == ProbeAudioOf(ProbeOutcomes)

\* chunkAudio() up to its loop: a chunk count of 1 returns the whole file as
\* the single chunk; otherwise the temporary directory is made (mkdir may
\* fail, which chunkAudio does not catch)
ChunkAudio ==
  /\ apc = "chunkAudio"
  /\ IF calculateChunkCount(aMeta, env) = 1
     THEN /\ apc' = "done"
          /\ aChunks' = <<WholeFileChunk(aPath, aMeta)>>
          /\ UNCHANGED <<calls, chunkDuration, aError>>
     ELSE /\ chunkDuration' =
               DivDouble(aMeta.duration, calculateChunkCount(aMeta, env))
          /\ calls' = Append(calls, Call("mkdir", [path |-> TempDir]))
          /\ \E created \in BOOLEAN :
               IF created
               THEN apc' = "split" /\ UNCHANGED <<aChunks, aError>>
               ELSE /\ apc' = "threw"
                    /\ aError' = PlainError(M_boom)
                    /\ UNCHANGED aChunks
  /\ UNCHANGED <<aPath, aMeta, tmpFiles, cleanVars>>
  /\ UNCHANGED <<stdout, cliVars, transVars, sumVars, notionVars, retryVars>>

\* One iteration of the for loop of chunkAudio: spawn ffmpeg for span i
SplitChunk ==
  /\ apc = "split"
  /\ LET i == Len(aChunks)
         chunkCount == calculateChunkCount(aMeta, env)
         chunk == SpanChunk(aPath, aMeta, chunkDuration, i)
     IN
     /\ calls' = Append(calls, Call("ffmpeg", chunk))
     /\ \E exit \in {0, 1} :
          IF exit # 0
          THEN /\ apc' = "threw"
               /\ aError' = FFmpegError(T_FailedToCreateChunk
                                          \o NumToString(i) \o <<":", " ">>
                                          \o M_boom)
               /\ UNCHANGED <<aChunks, tmpFiles>>
          ELSE /\ aChunks' = Append(aChunks, chunk)
               /\ tmpFiles' = tmpFiles \cup {chunk.path}
               /\ apc' = IF i + 1 < chunkCount THEN "split" ELSE "done"
               /\ UNCHANGED aError
  /\ UNCHANGED <<aPath, aMeta, chunkDuration, cleanVars>>
  /\ UNCHANGED <<stdout, cliVars, transVars, sumVars, notionVars, retryVars>>

\* How many rm commands of one cleanupChunks fail, at most
MaxRmFailures == 1

SkipsChunkMutant(chunks, k) == FALSE
\* if (chunk.index === 0 && chunks.length === 1) continue: the original file
\* is not deleted
SkipsChunk(chunks, k) == chunks[k].index = 0 /\ Len(chunks) = 1

\* Where the loop of cleanupChunks stands when it reaches chunk k: at the
\* existence check of the first chunk from k on that is not skipped, or
\* past the end of the list
RECURSIVE CleanupFrom(_, _)
CleanupFrom(chunks, k) ==
  IF k > Len(chunks) THEN [kpc |-> "done", kIndex |-> k]
  ELSE IF SkipsChunk(chunks, k) THEN CleanupFrom(chunks, k + 1)
  ELSE [kpc |-> "exists", kIndex |-> k]

\* A caller's `await cleanupChunks(chunks)`
CleanupBecomes(chunks) ==
  /\ kChunks' = chunks
  /\ kpc' = CleanupFrom(chunks, 1).kpc
  /\ kIndex' = CleanupFrom(chunks, 1).kIndex

\* The loop goes on to the chunk after the current one
CleanupAdvances ==
  /\ kpc' = CleanupFrom(kChunks, kIndex + 1).kpc
  /\ kIndex' = CleanupFrom(kChunks, kIndex + 1).kIndex

\* The chunk files before the current one that are still on disk: their rm
\* failed
RmFailures ==
  {kChunks[j].path : j \in {i \in 1..(kIndex - 1) :
                              i <= Len(kChunks) /\ kChunks[i].path \in tmpFiles}}

\* if (await file.exists()): a file that is not there is passed over
CleanupExists ==
  /\ kpc = "exists"
  /\ calls' = Append(calls, Call("exists", kChunks[kIndex]))
  /\ IF kChunks[kIndex].path \in tmpFiles
     THEN kpc' = "rm" /\ UNCHANGED kIndex
     ELSE CleanupAdvances
  /\ UNCHANGED <<kChunks, tmpFiles>>
  /\ UNCHANGED <<stdout, cliVars, procVars, transVars, sumVars, notionVars,
                 retryVars>>

\* await Bun.$`rm ${chunk.path}`.quiet(): the file is removed, or rm fails
\* and the catch inside the loop swallows the error
CleanupRm ==
  /\ kpc = "rm"
  /\ calls' = Append(calls, Call("rm", kChunks[kIndex]))
  /\ \E removed \in BOOLEAN :
       /\ ~removed => Cardinality(RmFailures) < MaxRmFailures
       /\ tmpFiles' = IF removed THEN tmpFiles \ {kChunks[kIndex].path}
                      ELSE tmpFiles
  /\ CleanupAdvances
  /\ UNCHANGED kChunks
  /\ UNCHANGED <<stdout, cliVars, procVars, transVars, sumVars, notionVars,
                 retryVars>>

-----------------------------------------------------------------------------
(* src/transcription/index.ts, groq.ts, openai.ts *)

T_UnknownProvider == <<"U","n","k","n","o","w","n"," ","t","r","a","n","s","c","r","i","p","t","i","o","n"," ","p","r","o","v","i","d","e","r",":"," ">>

JoinSpaceMutant(texts) ==
  IF texts = <<>> THEN "" ELSE texts[Len(texts)]
\* transcripts.join(" ")
RECURSIVE JoinSpace(_)
JoinSpace(texts) ==
  IF texts = <<>> THEN ""
  ELSE IF Len(texts) = 1 THEN texts[1]
  ELSE texts[1] \o " " \o JoinSpace(Tail(texts))

\* chunks.reduce((sum, c) => sum + (c.end - c.start), 0)
RECURSIVE SumSpansFrom(_, _, _)
SumSpansFrom(chunks, k, sum) ==
  IF k > Len(chunks) THEN sum
  ELSE SumSpansFrom(chunks, k + 1,
                    AddDouble(sum, SubDouble(chunks[k].end, chunks[k].start)))

SumSpansMutant(chunks) ==
  IF chunks = <<>> THEN DoubleOfNat(0)
  ELSE SubDouble(chunks[Len(chunks)].end, chunks[1].start)
SumSpans(chunks) == SumSpansFrom(chunks, 1, DoubleOfNat(0))

ProviderLabel(provider) == IF provider = "groq" THEN "Groq" ELSE "OpenAI"

ChunkRetryOptionsMutant ==
  [maxAttempts |-> 4, retryableErrors |-> "transient"]
ChunkRetryOptions == [maxAttempts |-> 3, retryableErrors |-> "transient"]

\* transcribe(config, chunks, provider) up to its first await: the provider
\* is resolved, its key checked, and the provider loop entered
TranscribeEntry(cfg, chunks, provider) ==
  LET sel == IF Truthy(provider) THEN provider
             ELSE cfg.defaultTranscriptionProvider
      base == [tpc |-> "await",
               tArgs |-> [config |-> cfg, chunks |-> chunks,
                          provider |-> provider],
               selectedProvider |-> sel, transcripts |-> <<>>,
               tResult |-> Undefined, tError |-> NoError, retries |-> FALSE]
  IN
  IF sel = "groq" /\ ~Truthy(cfg.groqApiKey)
    THEN [base EXCEPT !.tpc = "threw",
                      !.tError = MissingProviderKeyError(P_groq)]
  ELSE IF sel = "openai" /\ ~Truthy(cfg.openaiApiKey)
    THEN [base EXCEPT !.tpc = "threw",
                      !.tError = MissingProviderKeyError(P_openai)]
  ELSE IF sel \notin {"groq", "openai"}
    THEN [base EXCEPT !.tpc = "threw",
                      !.tError = PlainError(T_UnknownProvider \o Chars(sel))]
  ELSE IF chunks = <<>>
    THEN [base EXCEPT !.tpc = "done",
                      !.tResult = [text |-> "", duration |-> DoubleOfNat(0),
                                   provider |-> sel]]
  ELSE [base EXCEPT !.retries = TRUE]

TransIdle ==
  [tpc |-> "idle", tArgs |-> Undefined, selectedProvider |-> Absent,
   transcripts |-> <<>>, tResult |-> Undefined, tError |-> NoError,
   retries |-> FALSE]

TransIs(st) ==
  /\ tpc = st.tpc /\ tArgs = st.tArgs
  /\ selectedProvider = st.selectedProvider /\ transcripts = st.transcripts
  /\ tResult = st.tResult /\ tError = st.tError
  /\ RetryIs(IF st.retries
             THEN RetryEntry(st.selectedProvider, st.tArgs.chunks[1],
                             ChunkRetryOptions)
             ELSE RetryIdle)

\* A caller's `await transcribe(config, chunks, provider)`
TransBecomes(st) ==
  /\ tpc' = st.tpc /\ tArgs' = st.tArgs
  /\ selectedProvider' = st.selectedProvider /\ transcripts' = st.transcripts
  /\ tResult' = st.tResult /\ tError' = st.tError
  /\ IF st.retries
     THEN RetryBecomes(RetryEntry(st.selectedProvider, st.tArgs.chunks[1],
                                  ChunkRetryOptions))
     ELSE UNCHANGED retryVars

\* The provider loop resumes when the retry() of the current chunk settles:
\* push the text and go on to the next chunk or build the result, or wrap
\* the error as TranscriptionAPIError
TranscribeResume ==
  /\ tpc = "await"
  /\ rFor = selectedProvider
  /\ rpc \in {"returned", "threw"}
  /\ IF rpc = "returned"
     THEN LET texts == Append(transcripts, rValue)
              chunks == tArgs.chunks
          IN
          /\ transcripts' = texts
          /\ UNCHANGED tError
          /\ IF Len(texts) < Len(chunks)
             THEN /\ RetryBecomes(RetryEntry(selectedProvider,
                                              chunks[Len(texts) + 1],
                                              ChunkRetryOptions))
                  /\ UNCHANGED <<tpc, tResult>>
             ELSE /\ tpc' = "done"
                  /\ tResult' = [text |-> JoinSpace(texts),
                                 duration |-> SumSpans(chunks),
                                 provider |-> selectedProvider]
                  /\ UNCHANGED retryVars
     ELSE /\ tpc' = "threw"
          /\ tError' = TranscriptionAPIError(
                          Chars(ProviderLabel(selectedProvider)), lastError)
          /\ UNCHANGED <<transcripts, tResult, retryVars>>
  /\ UNCHANGED <<tArgs, selectedProvider>>
  /\ UNCHANGED <<tmpFiles, calls, stdout, cliVars, audioVars, sumVars,
                 notionVars>>

-----------------------------------------------------------------------------
(* src/summarization/claude.ts *)

T_NoTextResponse == <<"N","o"," ","t","e","x","t"," ","r","e","s","p","o","n","s","e"," ","f","r","o","m"," ","C","l","a","u","d","e">>
T_FailedToParse == <<"F","a","i","l","e","d"," ","t","o"," ","p","a","r","s","e"," ","J","S","O","N"," ","r","e","s","p","o","n","s","e",":"," ">>
T_MissingFields == <<"R","e","s","p","o","n","s","e"," ","m","i","s","s","i","n","g"," ","r","e","q","u","i","r","e","d"," ","f","i","e","l","d","s">>
T_NullProperty == <<"n","u","l","l"," ","i","s"," ","n","o","t"," ","a","n"," ","o","b","j","e","c","t">>

\* result.<name> on a parsed JSON value
Property(value, name) ==
  IF value.t = "object" /\ name \in DOMAIN value.fields
  THEN value.fields[name]
  ELSE JUndefined

\* The parsed object as the code goes on to use it: title and summary are
\* its texts, main_points and action_items its lists of JSON values, and
\* whatever other property the object holds stays in it
SummaryObject(fields) ==
  [k \in DOMAIN fields |->
     CASE k \in {"title", "summary"} -> fields[k].v
       [] k \in {"main_points", "action_items"} -> fields[k].items
       [] OTHER -> fields[k]]

\* The part of summarizeWithClaude after the API call returned: find the text
\* block, parse it, validate the four fields; a TypeError from reading a
\* property of null reaches the outer catch and is wrapped as an API error
ParseSummary(response) ==
  IF ~response.hasText
    THEN Throw(InvalidSummarizationResponseError(T_NoTextResponse))
  ELSE IF ~response.parses
    THEN Throw(InvalidSummarizationResponseError(
                 T_FailedToParse \o response.head))
  ELSE IF response.value.t \in {"null", "undefined"}
    THEN Throw(SummarizationAPIError(PlainError(T_NullProperty)))
  ELSE IF \/ Property(response.value, "title").t # "string"
          \/ Property(response.value, "summary").t # "string"
          \/ Property(response.value, "main_points").t # "array"
          \/ Property(response.value, "action_items").t # "array"
    THEN Throw(InvalidSummarizationResponseError(T_MissingFields))
  ELSE Ok(SummaryObject(response.value.fields))

ApiRetryOptions == [maxAttempts |-> 3, retryableErrors |-> "transient"]

\* A caller's `await summarizeWithClaude(apiKey, transcription)`
SummarizeBecomes(apiKey, transcription) ==
  /\ spc' = "await"
  /\ sArgs' = [apiKey |-> apiKey, transcription |-> transcription]
  /\ sResult' = Undefined
  /\ sError' = NoError
  /\ RetryBecomes(RetryEntry("claude", [text |-> transcription],
                             ApiRetryOptions))

SummarizeIdle ==
  /\ spc = "idle" /\ sArgs = Undefined /\ sResult = Undefined
  /\ sError = NoError

\* summarizeWithClaude resumes when retry() settles
SummarizeResume ==
  /\ spc = "await"
  /\ rFor = "claude"
  /\ rpc \in {"returned", "threw"}
  /\ IF rpc = "threw"
     THEN /\ spc' = "threw"
          /\ sError' = SummarizationAPIError(lastError)
          /\ UNCHANGED sResult
     ELSE LET r == ParseSummary(rValue) IN
          IF r.ok
          THEN spc' = "done" /\ sResult' = r.value /\ UNCHANGED sError
          ELSE spc' = "threw" /\ sError' = r.error /\ UNCHANGED sResult
  /\ UNCHANGED <<sArgs, retryVars>>
  /\ UNCHANGED <<tmpFiles, calls, stdout, cliVars, audioVars, transVars,
                 notionVars>>

-----------------------------------------------------------------------------
(* src/notion/blocks.ts *)

\* `${x}` for a JSON value that is a list item: String(x); a list is its
\* items joined by commas, a null or undefined item giving the empty text
RECURSIVE ItemText(_)
RECURSIVE JoinedItems(_)
JoinedItems(items) ==
  IF items = <<>> THEN ""
  ELSE (IF Head(items).t \in {"null", "undefined"} THEN ""
        ELSE ItemText(Head(items)))
         \o (IF Len(items) > 1 THEN "," \o JoinedItems(Tail(items)) ELSE "")

ItemText(item) ==
  CASE item.t = "string" -> item.v
    [] item.t = "number" -> ToString(item.n)
    [] item.t = "boolean" -> (IF item.b THEN "true" ELSE "false")
    [] item.t = "array" -> JoinedItems(item.items)
    [] item.t = "object" -> "[object Object]"
    [] OTHER -> item.t

\* Math.round(transcription.duration / 60)
DurationMinutes(transcription) ==
  MathRound(DivDouble(transcription.duration, 60))

MetadataLine(transcription) ==
  "Duration: " \o ToString(DurationMinutes(transcription))
    \o " minutes | Provider: " \o transcription.provider

\* The robot face emoji of .icon(), written as its code point
RobotFace == "U+1F916"

\* buildVoiceNoteBlocks: the calls made on the notion-helper builder before
\* build(): the options, the page properties, and the blocks in order, each
\* with the arguments it was given (a list item is handed over as it is)
buildVoiceNoteBlocks(summary, transcription, databaseId) ==
  [options |-> [limitChildren |-> FALSE],
   parent |-> databaseId,
   icon |-> RobotFace,
   titleProperty |-> "Name",
   title |-> summary.title,
   select |-> [property |-> "Type", option |-> "Voice Note"],
   blocks |->
     <<[type |-> "heading_2", text |-> "Summary"],
       [type |-> "paragraph", text |-> summary.summary]>>
     \o (IF Len(summary.main_points) > 0
         THEN <<[type |-> "heading_2", text |-> "Key Points"]>>
              \o [i \in 1..Len(summary.main_points) |->
                    [type |-> "bulleted_list_item",
                     item |-> summary.main_points[i]]]
         ELSE <<>>)
     \o (IF Len(summary.action_items) > 0
         THEN <<[type |-> "heading_2", text |-> "Action Items"]>>
              \o [i \in 1..Len(summary.action_items) |->
                    [type |-> "to_do",
                     item |-> summary.action_items[i], checked |-> FALSE]]
         ELSE <<>>)
     \o <<[type |-> "heading_2", text |-> "Full Transcript"],
          [type |-> "toggle", rich_text |-> "Click to expand transcript",
           children |-> <<[type |-> "paragraph",
                           text |-> transcription.text]>>],
          [type |-> "divider"],
          [type |-> "paragraph", text |-> MetadataLine(transcription)]>>]

buildPreviewContentMutant(summary, transcription) ==
  <<"# " \o summary.title, "", "## Summary", summary.summary, "",
    "## Key Points">>
    \o [i \in 1..Len(summary.main_points) |->
          "- " \o ItemText(summary.main_points[i])]
    \o <<"", "## Full Transcript", transcription.text, "", "---",
         MetadataLine(transcription)>>
\* buildPreviewContent: the lines, before lines.join("\n")
buildPreviewContent(summary, transcription) ==
  <<"# " \o summary.title, "", "## Summary", summary.summary, "">>
    \o (IF Len(summary.main_points) > 0
        THEN <<"## Key Points">>
             \o [i \in 1..Len(summary.main_points) |->
                   "- " \o ItemText(summary.main_points[i])]
             \o <<"">>
        ELSE <<>>)
    \o (IF Len(summary.action_items) > 0
        THEN <<"## Action Items">>
             \o [i \in 1..Len(summary.action_items) |->
                   "- [ ] " \o ItemText(summary.action_items[i])]
             \o <<"">>
        ELSE <<>>)
    \o <<"## Full Transcript", transcription.text, "", "---",
         MetadataLine(transcription)>>

-----------------------------------------------------------------------------
(* src/notion/index.ts *)

T_NoPageId == <<"N","o"," ","p","a","g","e"," ","I","D"," ","i","n"," ","r","e","s","p","o","n","s","e">>
T_NotionSo == <<"h","t","t","p","s",":","/","/","n","o","t","i","o","n",".","s","o","/">>

\* pageId.replace(/-/g, "")
RECURSIVE StripHyphens(_)
StripHyphens(str) ==
  IF str = <<>> THEN <<>>
  ELSE (IF Head(str) = "-" THEN <<>> ELSE <<Head(str)>>)
         \o StripHyphens(Tail(str))

\* The part of createVoiceNotePage after createPage returned
PageResult(response) ==
  IF response.id = <<>>
  THEN Throw(NotionAPIError(PlainError(T_NoPageId)))
  ELSE Ok([pageId |-> response.id,
           url |-> IF response.url # <<>> THEN response.url
                   ELSE T_NotionSo \o StripHyphens(response.id)])

\* The catch of createVoiceNotePage, for what retry() threw
PublishError(error, databaseId) ==
  IF \/ Includes(error.message, S_CouldNotFindDatabase)
     \/ Includes(error.message, S_object_not_found)
  THEN NotionDatabaseNotFoundError(Chars(databaseId))
  ELSE NotionAPIError(error)

PageRetryOptions == [maxAttempts |-> 3, retryableErrors |-> "notion"]

\* A caller's `await createVoiceNotePage(key, databaseId, summary, transcription)`
NotionBecomes(notionApiKey, databaseId, summary, transcription) ==
  /\ npc' = "await"
  /\ nArgs' = [notionApiKey |-> notionApiKey, databaseId |-> databaseId,
               page |-> buildVoiceNoteBlocks(summary, transcription,
                                             databaseId)]
  /\ nResult' = Undefined
  /\ nError' = NoError
  /\ RetryBecomes(RetryEntry("notion", [database |-> databaseId],
                             PageRetryOptions))

NotionIdle ==
  /\ npc = "idle" /\ nArgs = Undefined /\ nResult = Undefined
  /\ nError = NoError

\* createVoiceNotePage resumes when retry() settles
NotionResume ==
  /\ npc = "await"
  /\ rFor = "notion"
  /\ rpc \in {"returned", "threw"}
  /\ IF rpc = "threw"
     THEN /\ npc' = "threw"
          /\ nError' = PublishError(lastError, nArgs.databaseId)
          /\ UNCHANGED nResult
     ELSE LET r == PageResult(rValue) IN
          IF r.ok
          THEN npc' = "done" /\ nResult' = r.value /\ UNCHANGED nError
          ELSE npc' = "threw" /\ nError' = r.error /\ UNCHANGED nResult
  /\ UNCHANGED <<nArgs, retryVars>>
  /\ UNCHANGED <<tmpFiles, calls, stdout, cliVars, audioVars, transVars,
                 sumVars>>

-----------------------------------------------------------------------------
(* src/cli.ts *)

T_InvalidProvider == <<"I","n","v","a","l","i","d"," ","t","r","a","n","s","c","r","i","p","t","i","o","n"," ","p","r","o","v","i","d","e","r",":"," ">>
T_MustBe == <<"."," ","M","u","s","t"," ","b","e"," ","\"","g","r","o","q","\""," ","o","r"," ","\"","o","p","e","n","a","i","\"",".">>
T_UnknownOption == <<"U","n","k","n","o","w","n"," ","o","p","t","i","o","n">>
T_unknown == <<"u","n","k","n","o","w","n">>

Null == [null |-> TRUE]

\* parseCliArgs() on command line a: parseArgs (strict) throws a TypeError on
\* an option it does not know; --help, --version and a missing audio file
\* print and exit; an invalid provider throws InvalidArgumentError
parseCliArgs(a) ==
  IF a.unknown
    THEN [kind |-> "throw", error |-> PlainError(T_UnknownOption)]
  ELSE IF a.help
    THEN [kind |-> "exit", code |-> 0, out |-> <<[kind |-> "help"]>>]
  ELSE IF a.version
    THEN [kind |-> "exit", code |-> 0, out |-> <<[kind |-> "version"]>>]
  ELSE IF a.positionals = <<>>
    THEN [kind |-> "exit", code |-> 1, out |-> <<[kind |-> "help"]>>]
  ELSE IF Truthy(a.transcription) /\ a.transcription \notin {"groq", "openai"}
    THEN [kind |-> "throw",
          error |-> InvalidArgumentError(
                      T_InvalidProvider \o Chars(a.transcription) \o T_MustBe)]
  ELSE [kind |-> "return",
        value |-> [audioFile |-> a.positionals[1],
                   transcription |-> IF Truthy(a.transcription)
                                     THEN a.transcription ELSE "groq",
                   title |-> a.title,
                   databaseId |-> a.databaseId,
                   dryRun |-> a.dryRun,
                   verbose |-> a.verbose,
                   json |-> a.json]]

CaughtMutant(e) == pc' = "cleanup" /\ err' = e
\* Anything thrown inside main's try block lands in its catch
Caught(e) == pc' = "catch" /\ err' = e

\* const options = parseCliArgs()
MainParseArgs ==
  /\ pc = "start"
  /\ LET r == parseCliArgs(argv) IN
     CASE r.kind = "exit" ->
            /\ stdout' = stdout \o r.out
            /\ exitStatus' = r.code
            /\ pc' = "exited"
            /\ UNCHANGED <<options, err>>
       [] r.kind = "throw" ->
            /\ Caught(r.error)
            /\ UNCHANGED <<options, stdout, exitStatus>>
       [] r.kind = "return" ->
            /\ options' = r.value
            /\ pc' = "loadConfig"
            /\ UNCHANGED <<err, stdout, exitStatus>>
  /\ UNCHANGED <<config, result, calls, tmpFiles>>
  /\ UNCHANGED <<audioVars, transVars, sumVars, notionVars, retryVars>>

\* const config = loadConfig(options.transcription)
MainLoadConfig ==
  /\ pc = "loadConfig"
  /\ LET r == loadConfig(env, options.transcription) IN
     IF r.ok
     THEN config' = r.value /\ pc' = "checkFile" /\ UNCHANGED err
     ELSE Caught(r.error) /\ UNCHANGED config
  /\ UNCHANGED <<options, result, exitStatus, stdout, calls, tmpFiles>>
  /\ UNCHANGED <<audioVars, transVars, sumVars, notionVars, retryVars>>

\* if (!(await audioFile.exists())) throw new FileNotFoundError(...);
\* then processAudio(options.audioFile) is called
MainCheckFile ==
  /\ pc = "checkFile"
  /\ calls' = Append(calls, Call("exists", [path |-> options.audioFile, by |-> "main"]))
  /\ IF fileExists
     THEN /\ pc' = "awaitAudio"
          /\ AudioBecomes(options.audioFile)
          /\ UNCHANGED err
     ELSE /\ Caught(FileNotFoundError(options.audioFile))
          /\ UNCHANGED audioVars
  /\ UNCHANGED <<options, config, result, exitStatus, stdout, tmpFiles>>
  /\ UNCHANGED <<transVars, sumVars, notionVars, retryVars>>

\* const { metadata, chunks } = await processAudio(...); then transcribe(
\* config, chunks, options.transcription) is called
MainAfterAudio ==
  /\ pc = "awaitAudio"
  /\ apc \in {"done", "threw"}
  /\ IF apc = "done"
     THEN /\ pc' = "awaitTranscribe"
          /\ TransBecomes(TranscribeEntry(config, aChunks,
                                          options.transcription))
          /\ UNCHANGED err
     ELSE /\ Caught(aError)
          /\ UNCHANGED <<transVars, retryVars>>
  /\ UNCHANGED <<options, config, result, exitStatus, stdout, calls,
                 tmpFiles>>
  /\ UNCHANGED <<audioVars, sumVars, notionVars>>

\* const transcription = await transcribe(...)
MainAfterTranscribe ==
  /\ pc = "awaitTranscribe"
  /\ tpc \in {"done", "threw"}
  /\ IF tpc = "done"
     THEN pc' = "cleanup" /\ UNCHANGED err
     ELSE Caught(tError)
  /\ UNCHANGED <<options, config, result, exitStatus, stdout, calls,
                 tmpFiles>>
  /\ UNCHANGED <<audioVars, transVars, sumVars, notionVars, retryVars>>

NeedsCleanupMutant(chunks) == FALSE
\* if (chunks.length > 1)
NeedsCleanup(chunks) == Len(chunks) > 1

\* if (chunks.length > 1) await cleanupChunks(chunks); otherwise
\* summarizeWithClaude(config.anthropicApiKey, transcription.text) is called
\* at once
MainCleanup ==
  /\ pc = "cleanup"
  /\ IF NeedsCleanup(aChunks)
     THEN /\ pc' = "awaitCleanup"
          /\ CleanupBecomes(aChunks)
          /\ UNCHANGED <<sumVars, retryVars>>
     ELSE /\ pc' = "awaitSummary"
          /\ SummarizeBecomes(config.anthropicApiKey, tResult.text)
          /\ UNCHANGED cleanVars
  /\ UNCHANGED <<options, config, result, err, exitStatus, stdout, calls,
                 tmpFiles>>
  /\ UNCHANGED <<procVars, transVars, notionVars>>

\* cleanupChunks returned: summarizeWithClaude(config.anthropicApiKey,
\* transcription.text) is called
MainAfterCleanup ==
  /\ pc = "awaitCleanup"
  /\ kpc = "done"
  /\ pc' = "awaitSummary"
  /\ SummarizeBecomes(config.anthropicApiKey, tResult.text)
  /\ UNCHANGED <<options, config, result, err, exitStatus, stdout, calls,
                 tmpFiles>>
  /\ UNCHANGED <<audioVars, transVars, notionVars>>

\* console.log(JSON.stringify(result, null, 2)) or the "Notion page" line
Output(res) ==
  IF options.json THEN <<[kind |-> "json", value |-> res]>>
  ELSE IF ~options.dryRun
    THEN <<[kind |-> "line", text |-> res.notion.url]>>
  ELSE <<>>

\* const summary = await summarizeWithClaude(...); the title override; the
\* result object; then either the dry-run preview, the output and exit(0),
\* or the call of createVoiceNotePage
MainAfterSummary ==
  /\ pc = "awaitSummary"
  /\ spc \in {"done", "threw"}
  /\ IF spc = "threw"
     THEN /\ Caught(sError)
          /\ UNCHANGED <<result, exitStatus, stdout, notionVars, retryVars>>
     ELSE LET summary == IF Truthy(options.title)
                         THEN [sResult EXCEPT !.title = options.title]
                         ELSE sResult
              res == [success |-> TRUE,
                      audioFile |-> options.audioFile,
                      transcription |-> tResult,
                      summary |-> summary]
              databaseId == IF Truthy(options.databaseId)
                            THEN options.databaseId
                            ELSE config.notionDatabaseId
          IN
          /\ result' = res
          /\ UNCHANGED err
          /\ IF options.dryRun
             THEN /\ stdout' = stdout
                       \o (IF ~options.json
                           THEN <<[kind |-> "line", text |-> "--- Preview ---"],
                                  [kind |-> "preview",
                                   lines |-> buildPreviewContent(summary,
                                                                 tResult)],
                                  [kind |-> "line",
                                   text |-> "--- End Preview ---"]>>
                           ELSE <<>>)
                       \o Output(res)
                  /\ exitStatus' = 0
                  /\ pc' = "exited"
                  /\ UNCHANGED <<notionVars, retryVars>>
             ELSE /\ pc' = "awaitNotion"
                  /\ NotionBecomes(config.notionApiKey, databaseId, summary,
                                   tResult)
                  /\ UNCHANGED <<stdout, exitStatus>>
  /\ UNCHANGED <<options, config, calls, tmpFiles>>
  /\ UNCHANGED <<audioVars, transVars, sumVars>>

\* result.notion = await createVoiceNotePage(...); the output; exit(0)
MainAfterNotion ==
  /\ pc = "awaitNotion"
  /\ npc \in {"done", "threw"}
  /\ IF npc = "threw"
     THEN Caught(nError) /\ UNCHANGED <<result, exitStatus, stdout>>
     ELSE LET res == [notion |-> nResult] @@ result IN
          /\ result' = res
          /\ stdout' = stdout \o Output(res)
          /\ exitStatus' = 0
          /\ pc' = "exited"
          /\ UNCHANGED err
  /\ UNCHANGED <<options, config, calls, tmpFiles>>
  /\ UNCHANGED <<audioVars, transVars, sumVars, notionVars, retryVars>>

\* process.exit(err.exitCode) for a CLIError, process.exit(1) otherwise
ExitCodeFor(e) == IF e.isCLIError THEN e.exitCode ELSE 1

\* The catch block of main: the error payload, then parseCliArgs() is run
\* again for its json flag. When that second call throws, it throws out of
\* the catch block: main()'s promise rejects, nothing handles it, and the
\* runtime ends the process with status 1 without any output on stdout.
MainCatch ==
  /\ pc = "catch"
  /\ LET errorResult == [success |-> FALSE,
                         audioFile |-> IF result # Null THEN result.audioFile
                                       ELSE T_unknown,
                         error |-> err.message]
         again == parseCliArgs(argv)
     IN
     CASE again.kind = "return" ->
            /\ stdout' = IF again.value.json
                         THEN Append(stdout, [kind |-> "json",
                                              value |-> errorResult])
                         ELSE stdout
            /\ exitStatus' = ExitCodeFor(err)
       [] again.kind = "throw" ->
            /\ stdout' = stdout
            /\ exitStatus' = 1
       [] again.kind = "exit" ->
            /\ stdout' = stdout \o again.out
            /\ exitStatus' = again.code
  /\ pc' = "exited"
  /\ UNCHANGED <<options, config, result, err, calls, tmpFiles>>
  /\ UNCHANGED <<audioVars, transVars, sumVars, notionVars, retryVars>>

-----------------------------------------------------------------------------
(* test/cache.ts *)

CacheSteps == {"audio", "transcription", "summarization", "notion"}

\* A file of .test-cache: absent, present without being JSON, or holding a
\* CacheEntry (the timestamp, which nothing reads back, is left out)
NoFile == [file |-> "none"]
Garbled == [file |-> "garbled"]
CacheEntry(input, output, duration_ms) ==
  [file |-> "entry", input |-> input, output |-> output,
   duration_ms |-> duration_ms]

\* readCache(step): null unless the file exists and parses
readCache(files, step) ==
  IF files[step].file = "entry" THEN files[step] ELSE Null

\* load<Step>FromCache(): cached?.output ?? null
loadFromCache(files, step) ==
  LET cached == readCache(files, step)
  IN IF cached = Null THEN Null ELSE cached.output

\* await writeCache(step, input, output, duration_ms)
writeCache(step, input, output, duration_ms) ==
  /\ cache' = [cache EXCEPT ![step] = CacheEntry(input, output, duration_ms)]
  /\ calls' = Append(calls, Call("writeCache", [step |-> step]))

-----------------------------------------------------------------------------
(* test/steps/audio.ts, transcription.ts, summarization.ts, notion.ts *)

\* obj.name is present
Has(obj, name) == name \in DOMAIN obj
\* obj.name, undefined when absent (for the fields that hold text)
Field(obj, name) == IF Has(obj, name) THEN obj[name] ELSE Absent
FlagMutant(obj, name) == FALSE
\* obj.name is true
Flag(obj, name) == Has(obj, name) /\ obj[name]
\* options.useCache !== false
UseCacheNotFalse(opts) == ~Has(opts, "useCache") \/ opts.useCache

DryRunRequestedMutant(opts) == FALSE
\* if (options.dryRun)
DryRunRequested(opts) == Flag(opts, "dryRun")

\* Date.now() - startTime, whatever the run takes
ElapsedChoices == {3, 40}

CachedResult(cached) ==
  [success |-> TRUE, data |-> cached.output,
   duration_ms |-> cached.duration_ms, cached |-> TRUE]

SuccessResult(data, duration_ms) ==
  [success |-> TRUE, data |-> data, duration_ms |-> duration_ms,
   cached |-> FALSE]

FailureResult(message, duration_ms) ==
  [success |-> FALSE, error |-> message, duration_ms |-> duration_ms,
   cached |-> FALSE]

\* the runner returns res
StepReturns(res) == hpc' = "returned" /\ hResult' = res

StepFailsMutant(res) ==
  StepReturns(res) /\ cache' = [cache EXCEPT ![hStep] = NoFile]
\* A failure return of a runner, early or from its catch block: nothing is
\* written
StepFails(res) == StepReturns(res) /\ UNCHANGED cache

\* what probeAudio throws for a failed probe
ProbeError(out) ==
  CASE out.kind = "exit" -> FFmpegError(T_FailedToProbe \o out.stderr)
    [] out.kind = "malformed" -> PlainError(T_UnexpectedToken)
    [] out.kind = "noAudio" -> FFmpegError(T_NoAudioStream)

\* runAudioStep up to its try block: the cache check
RunAudioStep ==
  /\ hpc = "start" /\ hStep = "audio"
  /\ LET cached == readCache(cache, "audio") IN
     IF /\ UseCacheNotFalse(hOptions)
        /\ cached # Null
        /\ Field(cached.input, "filePath") = hInput.filePath
     THEN StepReturns(CachedResult(cached))
     ELSE hpc' = "checkFFmpeg" /\ UNCHANGED hResult
  /\ UNCHANGED <<hStep, hInput, hOptions, cache, calls>>
  /\ UNCHANGED <<tmpFiles, stdout, cliVars, audioVars, transVars, sumVars,
                 notionVars, retryVars>>

\* await checkFFmpeg(): what it throws is caught by the runner
AudioStepCheckFFmpeg ==
  /\ hpc = "checkFFmpeg" /\ hStep = "audio"
  /\ calls' = Append(calls, Call("ffprobe -version",
                                 [path |-> hInput.filePath,
                                  by |-> "runAudioStep"]))
  /\ \E found \in BOOLEAN, elapsed \in ElapsedChoices :
       IF found
       THEN hpc' = "exists" /\ UNCHANGED <<hResult, cache>>
       ELSE StepFails(FailureResult(FFmpegNotFoundError.message, elapsed))
  /\ UNCHANGED <<hStep, hInput, hOptions>>
  /\ UNCHANGED <<tmpFiles, stdout, cliVars, audioVars, transVars, sumVars,
                 notionVars, retryVars>>

\* if (!(await file.exists())) throw new Error(`File not found: ...`)
AudioStepFileExists ==
  /\ hpc = "exists" /\ hStep = "audio"
  /\ calls' = Append(calls, Call("exists", [path |-> hInput.filePath,
                                            by |-> "runAudioStep"]))
  /\ IF fileExists
     THEN hpc' = "probe" /\ UNCHANGED <<hResult, cache>>
     ELSE \E elapsed \in ElapsedChoices :
            StepFails(FailureResult(T_FileNotFound \o hInput.filePath,
                                    elapsed))
  /\ UNCHANGED <<hStep, hInput, hOptions>>
  /\ UNCHANGED <<tmpFiles, stdout, cliVars, audioVars, transVars, sumVars,
                 notionVars, retryVars>>

\* const metadata = await probeAudio(input.filePath), whose result is only
\* reported; then processAudio(input.filePath) is called
AudioStepProbe ==
  /\ hpc = "probe" /\ hStep = "audio"
  /\ calls' = Append(calls, Call("ffprobe", [path |-> hInput.filePath,
                                             by |-> "runAudioStep"]))
  /\ \E out \in ProbeOutcomes, elapsed \in ElapsedChoices :
       IF out.kind # "ok"
       THEN /\ StepFails(FailureResult(ProbeError(out).message, elapsed))
            /\ UNCHANGED audioVars
       ELSE /\ hpc' = "awaitAudio"
            /\ AudioBecomes(hInput.filePath)
            /\ UNCHANGED <<cache, hResult>>
  /\ UNCHANGED <<hStep, hInput, hOptions>>
  /\ UNCHANGED <<tmpFiles, stdout, cliVars, transVars, sumVars, notionVars,
                 retryVars>>

\* const result = await processAudio(input.filePath); the cache is written;
\* or the catch block
AudioStepResume ==
  /\ hpc = "awaitAudio"
  /\ apc \in {"done", "threw"}
  /\ \E elapsed \in ElapsedChoices :
       IF apc = "done"
       THEN LET res == [metadata |-> aMeta, chunks |-> aChunks] IN
            /\ writeCache("audio", hInput, res, elapsed)
            /\ StepReturns(SuccessResult(res, elapsed))
       ELSE /\ StepFails(FailureResult(aError.message, elapsed))
            /\ UNCHANGED calls
  /\ UNCHANGED <<hStep, hInput, hOptions>>
  /\ UNCHANGED <<tmpFiles, stdout, cliVars, audioVars, transVars, sumVars,
                 notionVars, retryVars>>

M_NoAudioCache == "No audio cache found. Run audio step first."
M_NoTranscriptionCache ==
  "No transcription cache found. Run transcription step first."
M_NoSummarizationCache ==
  "No summarization cache found. Run summarization step first."

\* runTranscriptionStep up to its call of transcribe: the chunks are loaded
\* from the audio entry when they are not given, then the cache check, then
\* loadConfig
RunTranscriptionStep ==
  /\ hpc = "start" /\ hStep = "transcription"
  /\ LET audioResult == loadFromCache(cache, "audio")
         load == Flag(hOptions, "fromCache") \/ ~Has(hInput, "chunks")
         chunks == IF load THEN audioResult.chunks ELSE hInput.chunks
         cached == readCache(cache, "transcription")
         provider == Field(hInput, "provider")
         cfg == loadConfig(env, provider)
     IN
     IF load /\ audioResult = Null
     THEN /\ \E elapsed \in ElapsedChoices :
               StepFails(FailureResult(M_NoAudioCache, elapsed))
          /\ UNCHANGED <<transVars, retryVars>>
     ELSE IF /\ UseCacheNotFalse(hOptions)
             /\ ~Flag(hOptions, "fromCache")
             /\ cached # Null
     THEN /\ StepReturns(CachedResult(cached))
          /\ UNCHANGED <<cache, transVars, retryVars>>
     ELSE IF ~cfg.ok
     THEN /\ \E elapsed \in ElapsedChoices :
               StepFails(FailureResult(cfg.error.message, elapsed))
          /\ UNCHANGED <<transVars, retryVars>>
     ELSE /\ hpc' = "awaitTranscribe"
          /\ TransBecomes(TranscribeEntry(cfg.value, chunks, provider))
          /\ UNCHANGED <<cache, hResult>>
  /\ UNCHANGED <<hStep, hInput, hOptions>>
  /\ UNCHANGED <<tmpFiles, calls, stdout, cliVars, audioVars, sumVars,
                 notionVars>>

\* const result = await transcribe(...); the cache is written; or the catch
\* block
TranscriptionStepResume ==
  /\ hpc = "awaitTranscribe"
  /\ tpc \in {"done", "threw"}
  /\ \E elapsed \in ElapsedChoices :
       IF tpc = "done"
       THEN /\ writeCache("transcription",
                          [chunks |-> tArgs.chunks,
                           provider |->
                             tArgs.config.defaultTranscriptionProvider],
                          tResult, elapsed)
            /\ StepReturns(SuccessResult(tResult, elapsed))
       ELSE /\ StepFails(FailureResult(tError.message, elapsed))
            /\ UNCHANGED calls
  /\ UNCHANGED <<hStep, hInput, hOptions>>
  /\ UNCHANGED <<tmpFiles, stdout, cliVars, audioVars, transVars, sumVars,
                 notionVars, retryVars>>

M_AnthropicKeyRequired ==
  "ANTHROPIC_API_KEY environment variable is required"
M_NotionKeyRequired == "NOTION_API_KEY environment variable is required"
M_NotionDatabaseRequired ==
  "NOTION_DATABASE_ID environment variable is required"

\* runSummarizationStep up to its call of summarizeWithClaude: the text is
\* loaded from the transcription entry when it is not given, then the cache
\* check, then the API key
RunSummarizationStep ==
  /\ hpc = "start" /\ hStep = "summarization"
  /\ LET transcriptionResult == loadFromCache(cache, "transcription")
         load == Flag(hOptions, "fromCache")
                   \/ ~Truthy(Field(hInput, "text"))
         text == IF load THEN transcriptionResult.text ELSE hInput.text
         cached == readCache(cache, "summarization")
         apiKey == env.ANTHROPIC_API_KEY
     IN
     IF load /\ transcriptionResult = Null
     THEN /\ \E elapsed \in ElapsedChoices :
               StepFails(FailureResult(M_NoTranscriptionCache, elapsed))
          /\ UNCHANGED <<sumVars, retryVars>>
     ELSE IF /\ UseCacheNotFalse(hOptions)
             /\ ~Flag(hOptions, "fromCache")
             /\ cached # Null
     THEN /\ StepReturns(CachedResult(cached))
          /\ UNCHANGED <<cache, sumVars, retryVars>>
     ELSE IF ~Truthy(apiKey)
     THEN /\ \E elapsed \in ElapsedChoices :
               StepFails(FailureResult(M_AnthropicKeyRequired, elapsed))
          /\ UNCHANGED <<sumVars, retryVars>>
     ELSE /\ hpc' = "awaitSummary"
          /\ SummarizeBecomes(apiKey, text)
          /\ UNCHANGED <<cache, hResult>>
  /\ UNCHANGED <<hStep, hInput, hOptions>>
  /\ UNCHANGED <<tmpFiles, calls, stdout, cliVars, audioVars, transVars,
                 notionVars>>

\* const result = await summarizeWithClaude(apiKey, text); the cache is
\* written; or the catch block
SummarizationStepResume ==
  /\ hpc = "awaitSummary"
  /\ spc \in {"done", "threw"}
  /\ \E elapsed \in ElapsedChoices :
       IF spc = "done"
       THEN /\ writeCache("summarization",
                          [textLength |-> Len(sArgs.transcription)],
                          sResult, elapsed)
            /\ StepReturns(SuccessResult(sResult, elapsed))
       ELSE /\ StepFails(FailureResult(sError.message, elapsed))
            /\ UNCHANGED calls
  /\ UNCHANGED <<hStep, hInput, hOptions>>
  /\ UNCHANGED <<tmpFiles, stdout, cliVars, audioVars, transVars, sumVars,
                 notionVars, retryVars>>

\* runNotionStep up to its call of createVoiceNotePage: the summary and the
\* transcription are loaded from their entries when they are not given; in
\* dry-run mode the preview is returned; then the cache check, then the key
\* and the database id
RunNotionStep ==
  /\ hpc = "start" /\ hStep = "notion"
  /\ LET cachedSummary == loadFromCache(cache, "summarization")
         loadSummary == Flag(hOptions, "fromCache")
                          \/ ~Has(hInput, "summary")
         summary == IF loadSummary THEN cachedSummary ELSE hInput.summary
         cachedTranscription == loadFromCache(cache, "transcription")
         loadTranscription == Flag(hOptions, "fromCache")
                                \/ ~Has(hInput, "transcription")
         transcription == IF loadTranscription THEN cachedTranscription
                          ELSE hInput.transcription
         cached == readCache(cache, "notion")
         notionApiKey == env.NOTION_API_KEY
         databaseId == IF Truthy(Field(hInput, "databaseId"))
                       THEN hInput.databaseId ELSE env.NOTION_DATABASE_ID
         early == [dryRun |-> Flag(hOptions, "dryRun")]
         late == [dryRun |-> FALSE]
     IN
     IF loadSummary /\ cachedSummary = Null
     THEN /\ \E elapsed \in ElapsedChoices :
               StepFails(FailureResult(M_NoSummarizationCache, elapsed)
                           @@ early)
          /\ UNCHANGED <<notionVars, retryVars>>
     ELSE IF loadTranscription /\ cachedTranscription = Null
     THEN /\ \E elapsed \in ElapsedChoices :
               StepFails(FailureResult(M_NoTranscriptionCache, elapsed)
                           @@ early)
          /\ UNCHANGED <<notionVars, retryVars>>
     ELSE IF DryRunRequested(hOptions)
     THEN /\ \E elapsed \in ElapsedChoices :
               StepReturns([success |-> TRUE,
                            preview |-> buildPreviewContent(summary,
                                                            transcription),
                            duration_ms |-> elapsed, cached |-> FALSE,
                            dryRun |-> TRUE])
          /\ UNCHANGED <<cache, notionVars, retryVars>>
     ELSE IF /\ UseCacheNotFalse(hOptions)
             /\ ~Flag(hOptions, "fromCache")
             /\ cached # Null
     THEN /\ StepReturns(CachedResult(cached) @@ late)
          /\ UNCHANGED <<cache, notionVars, retryVars>>
     ELSE IF ~Truthy(notionApiKey)
     THEN /\ \E elapsed \in ElapsedChoices :
               StepFails(FailureResult(M_NotionKeyRequired, elapsed) @@ late)
          /\ UNCHANGED <<notionVars, retryVars>>
     ELSE IF ~Truthy(databaseId)
     THEN /\ \E elapsed \in ElapsedChoices :
               StepFails(FailureResult(M_NotionDatabaseRequired, elapsed)
                           @@ late)
          /\ UNCHANGED <<notionVars, retryVars>>
     ELSE /\ hpc' = "awaitNotion"
          /\ NotionBecomes(notionApiKey, databaseId, summary, transcription)
          /\ UNCHANGED <<cache, hResult>>
  /\ UNCHANGED <<hStep, hInput, hOptions>>
  /\ UNCHANGED <<tmpFiles, calls, stdout, cliVars, audioVars, transVars,
                 sumVars>>

\* const result = await createVoiceNotePage(...); the cache is written; or
\* the catch block
NotionStepResume ==
  /\ hpc = "awaitNotion"
  /\ npc \in {"done", "threw"}
  /\ \E elapsed \in ElapsedChoices :
       IF npc = "done"
       THEN /\ writeCache("notion",
                          [title |-> nArgs.page.title,
                           databaseId |-> nArgs.databaseId],
                          nResult, elapsed)
            /\ StepReturns(SuccessResult(nResult, elapsed)
                             @@ [dryRun |-> FALSE])
       ELSE /\ StepFails(FailureResult(nError.message, elapsed)
                           @@ [dryRun |-> FALSE])
            /\ UNCHANGED calls
  /\ UNCHANGED <<hStep, hInput, hOptions>>
  /\ UNCHANGED <<tmpFiles, stdout, cliVars, audioVars, transVars, sumVars,
                 notionVars, retryVars>>

-----------------------------------------------------------------------------
(* Specifications *)

\* main() has not been started
CliIdle ==
  /\ pc = "off" /\ options = Undefined /\ config = Undefined
  /\ result = Null /\ err = NoError /\ exitStatus = -1

WorldIdle ==
  /\ argv = Undefined /\ env = Undefined /\ fileExists = FALSE
  /\ tmpFiles = {} /\ calls = <<>> /\ stdout = <<>>

\* no function is being studied on its own
FnIdle == fnArg = Undefined /\ fnResult = Undefined

\* clearCache is not running
ClearIdle == cpc = "idle" /\ cIndex = 0 /\ cleared = <<>>

\* no harness step runner has been started
HarnessIdle ==
  /\ cache = Undefined /\ hpc = "off" /\ hStep = Undefined
  /\ hInput = Undefined /\ hOptions = Undefined /\ hResult = Undefined
  /\ ppc = "off" /\ pResults = <<>>
  /\ ClearIdle

OtherIdle == FnIdle /\ HarnessIdle

\* The error classes on their own: any class is constructed with any argument
InitErrorClasses ==
  /\ InitErrors /\ OtherIdle /\ WorldIdle /\ CliIdle /\ AudioIdle /\ TransIs(TransIdle)
  /\ SummarizeIdle /\ NotionIdle
  /\ faultsLeft = 0

NextErrors ==
  Construct /\ UNCHANGED <<worldVars, otherVars, tmpFiles, calls, stdout, cliVars,
                           audioVars, transVars, sumVars, notionVars,
                           retryVars, faultsLeft>>

SpecErrors == InitErrorClasses /\ [][NextErrors]_vars

MaxAttemptsBound == 4

\* The options objects retry() is called with: any subset of the five
\* fields, each from a small set of values
RetryOptionChoices ==
  { [k \in ks |-> full[k]] :
      full \in [maxAttempts : 0..MaxAttemptsBound,
                initialDelayMs : {500, 40000},
                maxDelayMs : {1500},
                backoffMultiplier : {3},
                retryableErrors : {"transient", "notion"}],
      ks \in SUBSET {"maxAttempts", "initialDelayMs", "maxDelayMs",
                     "backoffMultiplier", "retryableErrors"} }

\* retry() on its own, called with any of the options objects
InitRetry ==
  /\ InitErrors /\ OtherIdle /\ WorldIdle /\ CliIdle /\ AudioIdle /\ SummarizeIdle
  /\ NotionIdle
  /\ tpc = "idle" /\ tArgs = Undefined /\ selectedProvider = Absent
  /\ transcripts = <<>> /\ tResult = Undefined /\ tError = NoError
  /\ faultsLeft = MaxAttemptsBound
  /\ \E given \in RetryOptionChoices :
       RetryIs(RetryEntry("standalone", 0, given))

NextRetry ==
  \/ RetryInvoke /\ UNCHANGED <<errVars, worldVars, otherVars>>
  \/ RetrySettle /\ UNCHANGED <<errVars, worldVars, otherVars>>
  \/ RetryWake /\ UNCHANGED <<errVars, worldVars, otherVars>>

SpecRetry == InitRetry /\ [][NextRetry]_vars

\* How many invocations of the external APIs fail in one run, at most
MaxFaults == 3

\* The chunks transcribe() may be handed: up to MaxChunks spans of a file
MaxChunks == 3

ChunkPool ==
  {[path |-> ChunkPath(F_rec, i), index |-> i, start |-> DoubleOfNat(20 * i),
    end |-> DoubleOfNat(20 * (i + 1))] : i \in 0..(MaxChunks - 1)}

ChunkLists ==
  {<<>>} \cup
  UNION {{q \in [1..n -> ChunkPool] :
            \A i, j \in 1..n : i # j => q[i] # q[j]} : n \in 1..MaxChunks}

ConfigChoices ==
  [anthropicApiKey : {"ak"}, notionApiKey : {"nk"},
   notionDatabaseId : {"db-env"},
   groqApiKey : {Absent, "gk"}, openaiApiKey : {Absent, "ok"},
   defaultTranscriptionProvider : {"groq", "openai", "whisper"}]

\* transcribe() on its own, called with any configuration, chunk list and
\* optional explicit provider
InitTranscribe ==
  /\ InitErrors /\ OtherIdle /\ WorldIdle /\ CliIdle /\ AudioIdle /\ SummarizeIdle
  /\ NotionIdle
  /\ \E cfg \in ConfigChoices, chunks \in ChunkLists,
        provider \in {Absent, "groq", "openai"} :
       TransIs(TranscribeEntry(cfg, chunks, provider))
  /\ faultsLeft = MaxFaults

NextTranscribe ==
  \/ RetryInvoke /\ UNCHANGED <<errVars, worldVars, otherVars>>
  \/ RetrySettle /\ UNCHANGED <<errVars, worldVars, otherVars>>
  \/ RetryWake /\ UNCHANGED <<errVars, worldVars, otherVars>>
  \/ TranscribeResume /\ UNCHANGED <<errVars, worldVars, otherVars, faultsLeft>>

SpecTranscribe == InitTranscribe /\ [][NextTranscribe]_vars

\* The command lines: an option parseArgs does not know, --help, --version,
\* with or without the audio file, any -t value, the output flags, and the
\* title and database overrides
ArgvChoices ==
  {a \in [unknown : BOOLEAN, help : BOOLEAN, version : BOOLEAN,
          positionals : {<<>>, <<F_rec>>},
          transcription : {Absent, "groq", "openai", "bogus"},
          title : {Absent, "My title"},
          databaseId : {Absent, "db-flag"},
          dryRun : BOOLEAN, verbose : {FALSE}, json : BOOLEAN] :
     /\ Cardinality({f \in {"unknown", "help", "version"} : a[f]}) <= 1
     /\ (a.title = Absent) = (a.databaseId = Absent)}

\* The environments: at most one of the three required variables unset; a
\* provider preference and a size override only with both provider keys set
EnvChoices ==
  {e \in [ANTHROPIC_API_KEY : {Absent, "ak"},
          NOTION_API_KEY : {Absent, "nk"},
          NOTION_DATABASE_ID : {Absent, "db-env"},
          GROQ_API_KEY : {Absent, "gk"},
          OPENAI_API_KEY : {Absent, "ok"},
          TRANSCRIPTION_PROVIDER : {Absent, "groq", "openai"},
          GROQ_MAX_FILE_SIZE_MB : {<<>>, <<"1","0","0">>}] :
     /\ Cardinality({k \in {"ANTHROPIC_API_KEY", "NOTION_API_KEY",
                            "NOTION_DATABASE_ID"} : e[k] = Absent}) <= 1
     /\ (e.GROQ_API_KEY = Absent \/ e.OPENAI_API_KEY = Absent) =>
          (e.TRANSCRIPTION_PROVIDER = Absent /\ e.GROQ_MAX_FILE_SIZE_MB = <<>>)}

\* The environment with everything set and no provider preference
BaseEnv ==
  [ANTHROPIC_API_KEY |-> "ak", NOTION_API_KEY |-> "nk",
   NOTION_DATABASE_ID |-> "db-env", GROQ_API_KEY |-> "gk",
   OPENAI_API_KEY |-> "ok", TRANSCRIPTION_PROVIDER |-> Absent,
   GROQ_MAX_FILE_SIZE_MB |-> <<>>]

\* The whole program: main() run on a command line in an environment; the
\* dry-run flag and the overrides are varied in the base environment, the
\* environment is varied without them
InitCli ==
  /\ InitErrors /\ OtherIdle
  /\ argv \in ArgvChoices /\ env \in EnvChoices /\ fileExists \in BOOLEAN
  /\ (argv.dryRun \/ argv.title # Absent) => env = BaseEnv
  /\ tmpFiles = {} /\ calls = <<>> /\ stdout = <<>>
  /\ pc = "start" /\ options = Undefined /\ config = Undefined
  /\ result = Null /\ err = NoError /\ exitStatus = -1
  /\ AudioIdle /\ TransIs(TransIdle) /\ SummarizeIdle /\ NotionIdle
  /\ faultsLeft = MaxFaults

NextCli ==
  \/ MainParseArgs /\ UNCHANGED <<errVars, worldVars, otherVars, faultsLeft>>
  \/ MainLoadConfig /\ UNCHANGED <<errVars, worldVars, otherVars, faultsLeft>>
  \/ MainCheckFile /\ UNCHANGED <<errVars, worldVars, otherVars, faultsLeft>>
  \/ CheckFFmpeg /\ UNCHANGED <<errVars, worldVars, otherVars, faultsLeft>>
  \/ AudioFileExists /\ UNCHANGED <<errVars, worldVars, otherVars, faultsLeft>>
  \/ ProbeAudio /\ UNCHANGED <<errVars, worldVars, otherVars, faultsLeft>>
  \/ ChunkAudio /\ UNCHANGED <<errVars, worldVars, otherVars, faultsLeft>>
  \/ SplitChunk /\ UNCHANGED <<errVars, worldVars, otherVars, faultsLeft>>
  \/ MainAfterAudio /\ UNCHANGED <<errVars, worldVars, otherVars, faultsLeft>>
  \/ RetryInvoke /\ UNCHANGED <<errVars, worldVars, otherVars>>
  \/ RetrySettle /\ UNCHANGED <<errVars, worldVars, otherVars>>
  \/ RetryWake /\ UNCHANGED <<errVars, worldVars, otherVars>>
  \/ TranscribeResume /\ UNCHANGED <<errVars, worldVars, otherVars, faultsLeft>>
  \/ MainAfterTranscribe /\ UNCHANGED <<errVars, worldVars, otherVars, faultsLeft>>
  \/ MainCleanup /\ UNCHANGED <<errVars, worldVars, otherVars, faultsLeft>>
  \/ CleanupExists /\ UNCHANGED <<errVars, worldVars, otherVars, faultsLeft>>
  \/ CleanupRm /\ UNCHANGED <<errVars, worldVars, otherVars, faultsLeft>>
  \/ MainAfterCleanup /\ UNCHANGED <<errVars, worldVars, otherVars, faultsLeft>>
  \/ SummarizeResume /\ UNCHANGED <<errVars, worldVars, otherVars, faultsLeft>>
  \/ MainAfterSummary /\ UNCHANGED <<errVars, worldVars, otherVars, faultsLeft>>
  \/ NotionResume /\ UNCHANGED <<errVars, worldVars, otherVars, faultsLeft>>
  \/ MainAfterNotion /\ UNCHANGED <<errVars, worldVars, otherVars, faultsLeft>>
  \/ MainCatch /\ UNCHANGED <<errVars, worldVars, otherVars, faultsLeft>>

SpecCli == InitCli /\ [][NextCli]_vars

-----------------------------------------------------------------------------
(* Claims *)

\* A run that went past argument parsing or failed: not --help, --version or
\* the usage exit
IsPipelineRun == options # Undefined \/ err # NoError

\* C1: when a run ends after an error was raised, the exit status is that
\* error's exitCode if it is a typed CLIError (3 for an invalid -t value
\* raised by argument parsing), and 1 if it is untyped.
C1_TypedErrorSetsExitCode ==
  (pc = "exited" /\ err # NoError) =>
    exitStatus = (IF err.isCLIError THEN err.exitCode ELSE 1)

JsonObjects == SelectSeq(stdout, LAMBDA o : o.kind = "json")

\* C2: a terminated run that was given --json has written exactly one JSON
\* object to stdout: the success object (with notion unless dry-run) after a
\* success, {success: false, audioFile, error: message} after a failure.
C2_JsonModeWritesOneObject ==
  (pc = "exited" /\ argv.json /\ IsPipelineRun) =>
    /\ Len(JsonObjects) = 1
    /\ LET o == JsonObjects[1].value IN
       IF err = NoError
       THEN /\ o.success
            /\ DOMAIN o = {"success", "audioFile", "transcription", "summary"}
                            \cup (IF argv.dryRun THEN {} ELSE {"notion"})
       ELSE /\ ~o.success
            /\ DOMAIN o = {"success", "audioFile", "error"}
            /\ o.error = err.message

\* The stage an external call belongs to: 2 the file check of main, 3 probe
\* and split, 4 transcription, 5 chunk cleanup, 6 summarization, 7 publication
StageOf(c) ==
  CASE c.op \in {"ffprobe -version", "ffprobe", "mkdir", "ffmpeg"} -> 3
    [] c.op = "exists" /\ "by" \in DOMAIN c.arg ->
         IF c.arg.by = "main" THEN 2 ELSE 3
    [] c.op \in {"groq", "openai"} -> 4
    [] c.op = "rm" \/ (c.op = "exists" /\ "by" \notin DOMAIN c.arg) -> 5
    [] c.op = "claude" -> 6
    [] c.op = "notion" -> 7

\* The stage whose failure main caught (1 is the config load, 0 the argument
\* parsing before any stage)
FailedStage ==
  CASE options = Undefined -> 0
    [] config = Undefined -> 1
    [] apc = "idle" -> 2
    [] apc = "threw" -> 3
    [] tpc = "threw" -> 4
    [] spc = "threw" -> 6
    [] npc = "threw" -> 7

\* C5: the external calls of a run appear in stage order; a call of a stage
\* is made only when every earlier stage has completed successfully; after a
\* failure main is in its catch or has exited and no call of a later stage
\* was made; and a run that processes an audio file exits 0 only when config
\* load, file check, probe/split, transcription, summarization and (unless
\* dry-run) publication all succeeded.
C5_StagesInOrder ==
  /\ \A i \in 1..(Len(calls) - 1) :
       StageOf(calls[i]) <= StageOf(calls[i + 1])
  /\ \A i \in 1..Len(calls) :
       LET st == StageOf(calls[i]) IN
       /\ config # Undefined
       /\ st >= 3 => fileExists
       /\ st >= 4 => apc = "done"
       /\ st >= 5 => tpc = "done"
       /\ st >= 6 => pc \notin {"start", "loadConfig", "checkFile",
                                "awaitAudio", "awaitTranscribe", "cleanup",
                                "awaitCleanup"}
       /\ st >= 7 => spc = "done"
  /\ err # NoError =>
       /\ pc \in {"catch", "exited"}
       /\ \A i \in 1..Len(calls) : StageOf(calls[i]) <= FailedStage
  /\ (exitStatus = 0 /\ options # Undefined) =>
       /\ err = NoError
       /\ config # Undefined /\ fileExists
       /\ apc = "done" /\ tpc = "done" /\ spc = "done"
       /\ (options.dryRun \/ npc = "done")
       /\ (options.dryRun => npc = "idle")

C5_Witness ==
  /\ pc = "exited" /\ exitStatus = 0 /\ options # Undefined
  /\ ~options.dryRun
  /\ Len(aChunks) = 2
  /\ \E i \in 1..Len(calls) : calls[i].op = "rm"
  /\ \E i \in 1..Len(calls) : calls[i].op = "notion"

\* The position of a chunk in the list transcribe was given
PositionOf(chunk) ==
  CHOOSE k \in 1..Len(tArgs.chunks) : tArgs.chunks[k] = chunk

ProviderCalls == SelectSeq(calls, LAMBDA c : c.op \in {"groq", "openai"})

RECURSIVE TextsInOrder(_, _)
TextsInOrder(chunks, n) ==
  IF n = 0 THEN ""
  ELSE IF n = 1 THEN StubText(chunks[1])
  ELSE TextsInOrder(chunks, n - 1) \o " " \o StubText(chunks[n])

\* C6: the provider calls follow the chunk list: a call is for the first
\* chunk that has no text yet (so the calls of chunk i+1 start only after
\* chunk i succeeded, and the calls never go back), and the returned text is
\* the chunk texts in list order with one space between neighbours: "a b c"
\* for the chunks answered a, b, c.
C6_ChunksInOrder ==
  (tpc # "idle" /\ tArgs # Undefined) =>
    /\ \A i \in 1..Len(ProviderCalls) :
         /\ ProviderCalls[i].op = selectedProvider
         /\ PositionOf(ProviderCalls[i].arg) <= Len(transcripts) + 1
         /\ \A j \in 1..Len(ProviderCalls) :
              i < j => PositionOf(ProviderCalls[i].arg)
                         <= PositionOf(ProviderCalls[j].arg)
    /\ \A k \in 1..Len(transcripts) :
         transcripts[k] = StubText(tArgs.chunks[k])
    /\ tpc = "done" =>
         /\ tResult.text = TextsInOrder(tArgs.chunks, Len(tArgs.chunks))
         /\ ([k \in 1..Len(tArgs.chunks) |-> tArgs.chunks[k].index]
               = <<0, 1, 2>> => tResult.text = "a b c")

C6_Witness ==
  /\ tpc = "done"
  /\ [k \in 1..Len(tArgs.chunks) |-> tArgs.chunks[k].index] = <<0, 1, 2>>
  /\ tResult.text = "a b c"
  /\ \E i \in 1..Len(calls) : calls[i].attempt = 2

\* The provider a run without -t should use according to the help text
ProviderByDefault ==
  IF Truthy(argv.transcription) THEN argv.transcription
  ELSE IF Truthy(env.TRANSCRIPTION_PROVIDER) THEN env.TRANSCRIPTION_PROVIDER
  ELSE "groq"

\* C7: every transcription call of a run goes to the provider given with -t,
\* or without -t to the one TRANSCRIPTION_PROVIDER names, or to groq when
\* neither is set.
C7_DefaultProviderFromEnvironment ==
  \A i \in 1..Len(calls) :
    calls[i].op \in {"groq", "openai"} => calls[i].op = ProviderByDefault

\* C8: transcribe resolves the provider as the explicit argument when given,
\* else config.defaultTranscriptionProvider; when the resolved provider has
\* no API key the call has thrown MissingProviderKeyError (category config,
\* exit code 12), unwrapped, and no provider call was made.
C8_MissingKeyBeforeAnyCall ==
  (tpc # "idle" /\ tArgs # Undefined) =>
    LET resolved == IF tArgs.provider # Absent THEN tArgs.provider
                    ELSE tArgs.config.defaultTranscriptionProvider
        keyless == \/ resolved = "groq" /\ tArgs.config.groqApiKey = Absent
                   \/ resolved = "openai"
                        /\ tArgs.config.openaiApiKey = Absent
    IN
    /\ selectedProvider = resolved
    /\ keyless =>
         /\ tpc = "threw"
         /\ tError.name = "MissingProviderKeyError"
         /\ tError.category = "config"
         /\ tError.exitCode = 12
         /\ calls = <<>>
         /\ rCalls = 0
    /\ (resolved \in {"groq", "openai"} /\ ~keyless /\ tpc = "threw") =>
         tError.name = "TranscriptionAPIError"

C8_Witness ==
  /\ tpc = "threw"
  /\ tArgs.provider = Absent
  /\ tArgs.config.defaultTranscriptionProvider = "openai"
  /\ tArgs.config.openaiApiKey = Absent
  /\ tArgs.config.groqApiKey # Absent
  /\ Len(tArgs.chunks) = 2
  /\ tError.exitCode = 12
  /\ calls = <<>>

\* The size ceiling of a provider: getMaxFileSize as it would answer if the
\* provider it looked at were the given one
CeilingOf(provider) ==
  getMaxFileSize([env EXCEPT !.TRANSCRIPTION_PROVIDER = provider])

\* C10: once a run transcribes, the chunking decision taken for its file is
\* "fileSize > ceiling of the provider it transcribes with", whatever -t,
\* TRANSCRIPTION_PROVIDER and GROQ_MAX_FILE_SIZE_MB are.
C10_ChunkingUsesResolvedProvider ==
  (pc = "awaitTranscribe" /\ tpc \in {"await", "done"}) =>
    (needsChunking(aMeta, env)
       <=> aMeta.fileSize > CeilingOf(selectedProvider))

\* Whether the predicate retry() was given accepts a thrown value, read off
\* its message: the default accepts everything, isTransientError the
\* transient signatures, the Notion predicate those unless the message says
\* the database was not found
Accepts(tag, thrown) ==
  LET transient == \E sig \in {S_rate_limit, S_429, S_too_many_requests,
                               S_timeout, S_econnreset, S_econnrefused,
                               S_503, S_502} :
                     Includes(ToLowerCase(thrown.message), sig)
      noDatabase == \/ Includes(thrown.message, S_CouldNotFindDatabase)
                    \/ Includes(thrown.message, S_object_not_found)
  IN \/ tag = "always"
     \/ tag = "transient" /\ transient
     \/ tag = "notion" /\ transient /\ ~noDatabase

\* The thrown values of the current retry() call that the predicate accepts
AcceptedThrows ==
  {i \in 1..Len(rThrown) : Accepts(rOpts.retryableErrors, rThrown[i])}

AllThrownAreErrors == \A i \in 1..Len(rThrown) : rThrown[i].isError

\* C3: with maxAttempts = N >= 1, when every invocation of fn throws an Error
\* the predicate accepts, fn is invoked exactly N times, never more, and
\* retry rethrows the very object the last invocation threw (not a wrapper);
\* a normal return needs an invocation that did not throw.
C3_RetryExhausts ==
  (rFor = "standalone" /\ rOpts.maxAttempts >= 1) =>
    /\ rCalls <= rOpts.maxAttempts
    /\ (rpc = "returned" => Len(rThrown) < rCalls)
    /\ (/\ rpc = "threw"
        /\ AllThrownAreErrors
        /\ AcceptedThrows = 1..Len(rThrown))
       => /\ rCalls = rOpts.maxAttempts
          /\ Len(rThrown) = rOpts.maxAttempts
          /\ lastError = rThrown[rOpts.maxAttempts]
          /\ lastError.at = rOpts.maxAttempts
          /\ ~lastError.fresh

C3_Witness ==
  /\ rFor = "standalone" /\ rpc = "threw"
  /\ rOpts.maxAttempts = 3 /\ rCalls = 3
  /\ AllThrownAreErrors
  /\ AcceptedThrows = 1..3
  /\ lastError = rThrown[3]

\* C4: when the k-th invocation (k < maxAttempts) throws an error the
\* predicate rejects, retry is over: fn was invoked k times and is not invoked
\* again, no sleep follows that failure (only the k-1 sleeps after the earlier
\* failures happened), and that error is what retry throws.
C4_StopsAtRejectedError ==
  \A k \in 1..Len(rThrown) :
    (/\ rFor = "standalone"
     /\ k < rOpts.maxAttempts
     /\ ~Accepts(rOpts.retryableErrors, rThrown[k]))
    => /\ rpc = "threw"
       /\ rCalls = k
       /\ Len(rThrown) = k
       /\ Len(sleeps) = k - 1
       /\ lastError.message = rThrown[k].message
       /\ lastError.at = k
       /\ (rThrown[k].isError => lastError = rThrown[k])

C4_Witness ==
  /\ rFor = "standalone" /\ rpc = "threw"
  /\ rOpts.maxAttempts = 4 /\ rCalls = 2
  /\ Len(sleeps) = 1
  /\ rThrown[2].isError
  /\ ~Accepts(rOpts.retryableErrors, rThrown[2])
  /\ lastError = rThrown[2]

CategoryRange ==
  [input |-> 1..9, config |-> 10..19, transcription |-> 20..29,
   summarization |-> 30..39, notion |-> 40..49, processing |-> 50..59]

\* The exit codes the taxonomy fixes, by class name
FixedCode ==
  [FileNotFoundError |-> 2, InvalidArgumentError |-> 3,
   MissingEnvVarError |-> 11, MissingProviderKeyError |-> 12,
   TranscriptionAPIError |-> 21, TranscriptionFileTooLargeError |-> 22,
   SummarizationAPIError |-> 31, InvalidSummarizationResponseError |-> 32,
   NotionAPIError |-> 41, NotionDatabaseNotFoundError |-> 42,
   FFmpegNotFoundError |-> 51, FFmpegError |-> 52]

\* C9: every typed error carries a category of the taxonomy and an exit code
\* inside that category's range, the named classes carry their fixed codes,
\* and the exit code determines the category (the ranges are disjoint).
C9_ErrorTaxonomy ==
  made # NoError =>
    /\ made.isCLIError
    /\ made.category \in DOMAIN CategoryRange
    /\ made.exitCode \in CategoryRange[made.category]
    /\ (made.name \in DOMAIN FixedCode => made.exitCode = FixedCode[made.name])
    /\ \A c \in DOMAIN CategoryRange :
         made.exitCode \in CategoryRange[c] => c = made.category
    /\ \A e \in Constructible :
         e.name = made.name =>
           (e.exitCode = made.exitCode /\ e.category = made.category)

C9_Witness ==
  /\ made # NoError
  /\ made.name = "FileNotFoundError"
  /\ made.exitCode = 2
  /\ made.category = "input"


-----------------------------------------------------------------------------
(* The size ceiling on its own *)

MaxOverrideLen == 3

\* The override texts: every text of at most MaxOverrideLen characters over
\* digits, signs, white space, a decimal point and a letter
OverrideAlphabet == {"0", "1", "-", "+", " ", ".", "a"}
OverrideTexts == UNION {[1..n -> OverrideAlphabet] : n \in 0..MaxOverrideLen}

CeilingEnvChoices ==
  {[BaseEnv EXCEPT !.TRANSCRIPTION_PROVIDER = provider,
                   !.GROQ_MAX_FILE_SIZE_MB = override] :
     provider \in {Absent, "groq", "openai"}, override \in OverrideTexts}

InitCeiling ==
  /\ InitErrors
  /\ argv = Undefined /\ env \in CeilingEnvChoices /\ fileExists = FALSE
  /\ tmpFiles = {} /\ calls = <<>> /\ stdout = <<>>
  /\ CliIdle /\ AudioIdle /\ TransIs(TransIdle) /\ SummarizeIdle /\ NotionIdle
  /\ faultsLeft = 0
  /\ OtherIdle

\* getMaxFileSize() is called in the environment
CallGetMaxFileSize ==
  /\ fnArg = Undefined
  /\ fnArg' = [fn |-> "getMaxFileSize"]
  /\ fnResult' = getMaxFileSize(env)

NextCeiling ==
  CallGetMaxFileSize
    /\ UNCHANGED <<errVars, worldVars, harnessVars, tmpFiles, calls, stdout,
                   cliVars, audioVars, transVars, sumVars, notionVars,
                   retryVars, faultsLeft>>

SpecCeiling == InitCeiling /\ [][NextCeiling]_vars

RECURSIVE TrimEnd(_)
TrimEnd(s) ==
  IF s # <<>> /\ IsWhiteSpace(s[Len(s)])
  THEN TrimEnd(SubSeq(s, 1, Len(s) - 1)) ELSE s

\* The text writes a positive integer: digits only (white space around them
\* and one leading plus sign allowed), not all zero
WritesPositiveInteger(text) ==
  LET t == TrimEnd(TrimStart(text))
      digits == IF t # <<>> /\ Head(t) = "+" THEN Tail(t) ELSE t
  IN /\ digits # <<>>
     /\ \A i \in 1..Len(digits) : IsDigit(digits[i])
     /\ DecimalValue(digits) > 0

WrittenInteger(text) ==
  LET t == TrimEnd(TrimStart(text))
  IN DecimalValue(IF Head(t) = "+" THEN Tail(t) ELSE t)

MegaByte == 1024 * 1024

\* C11: the ceiling is 25 MB for OpenAI whatever the override; for Groq it
\* is n MB when the override is a positive integer n, and 25 MB for every
\* other override (non-positive, or not the text of an integer).
C11_CeilingFromOverride ==
  (fnArg # Undefined /\ fnArg.fn = "getMaxFileSize") =>
    LET provider == env.TRANSCRIPTION_PROVIDER
        override == env.GROQ_MAX_FILE_SIZE_MB
    IN /\ provider = "openai" => fnResult = 25 * MegaByte
       /\ provider = "groq" =>
            fnResult = IF WritesPositiveInteger(override)
                       THEN WrittenInteger(override) * MegaByte
                       ELSE 25 * MegaByte


-----------------------------------------------------------------------------
(* processAudio and chunkAudio on their own *)

MaxFileMB == 49

\* Files of no bytes, and of 1, 3, 25 and MaxFileMB megabytes and a byte more
FileSizeChoices ==
  {0} \cup UNION {{k * MegaByte, k * MegaByte + 1} : k \in {1, 3, 25, MaxFileMB}}

\* The duration texts of ffprobe: whole and fractional seconds, and one that
\* is not a number
D_second == <<"1",".","0","0","0","0","0","0">>
D_twoMinutes == <<"1","2","3",".","4","5","6","7","8","9">>
D_notANumber == <<"N","/","A">>
DurationTexts == {D_second, D_minute, D_twoMinutes, D_notANumber}

WideMetadataChoices ==
  {MetadataOf(text, size) : text \in DurationTexts, size \in FileSizeChoices}

WideProbeOutcomes ==
  FailedProbes
    \cup {[kind |-> "ok", metadata |-> m] : m \in WideMetadataChoices}

\* Groq with the default ceiling and with a ceiling of 1 MB, and OpenAI
AudioEnvChoices ==
  {[BaseEnv EXCEPT !.TRANSCRIPTION_PROVIDER = provider,
                   !.GROQ_MAX_FILE_SIZE_MB = override] :
     provider \in {"groq", "openai"}, override \in {<<>>, <<"1">>}}

\* Either processAudio(filePath) is called, or chunkAudio(filePath, metadata)
\* is called directly with any of the metadata
InitAudio ==
  /\ InitErrors /\ OtherIdle
  /\ argv = Undefined /\ env \in AudioEnvChoices /\ fileExists \in BOOLEAN
  /\ tmpFiles = {} /\ calls = <<>> /\ stdout = <<>>
  /\ CliIdle /\ TransIs(TransIdle) /\ SummarizeIdle /\ NotionIdle
  /\ faultsLeft = 0
  /\ aPath = F_rec /\ chunkDuration = Undefined /\ aChunks = <<>>
  /\ aError = NoError /\ CleanIdle
  /\ \/ apc = "checkFFmpeg" /\ aMeta = Undefined
     \/ apc = "chunkAudio" /\ aMeta \in WideMetadataChoices

ProbeAudioWide == ProbeAudioOf(WideProbeOutcomes)

NextAudio ==
  \/ CheckFFmpeg /\ UNCHANGED <<errVars, worldVars, otherVars, faultsLeft>>
  \/ AudioFileExists /\ UNCHANGED <<errVars, worldVars, otherVars, faultsLeft>>
  \/ ProbeAudioWide /\ UNCHANGED <<errVars, worldVars, otherVars, faultsLeft>>
  \/ ChunkAudio /\ UNCHANGED <<errVars, worldVars, otherVars, faultsLeft>>
  \/ SplitChunk /\ UNCHANGED <<errVars, worldVars, otherVars, faultsLeft>>

SpecAudio == InitAudio /\ [][NextAudio]_vars

NoSplitting ==
  /\ tmpFiles = {}
  /\ \A k \in 1..Len(calls) : calls[k].op \notin {"mkdir", "ffmpeg"}

\* C12: for a file no larger than the ceiling needsChunking is false, and
\* processAudio and chunkAudio return exactly one chunk: the input path,
\* index 0, from 0 to the duration; no split subprocess is started and no
\* temporary directory or file is made.
C12_SmallFileIsOneChunk ==
  (aMeta # Undefined /\ aMeta.fileSize <= getMaxFileSize(env)) =>
    /\ ~needsChunking(aMeta, env)
    /\ NoSplitting
    /\ apc \in {"chunkAudio", "done"}
    /\ apc = "done" =>
         aChunks = <<[path |-> aPath, index |-> 0, start |-> DoubleOfNat(0),
                      end |-> aMeta.duration]>>

C12_Witness ==
  /\ apc = "done"
  /\ aMeta.fileSize = getMaxFileSize(env)
  /\ Len(aChunks) = 1
  /\ Len(calls) = 3


\* what the file size and the ceiling make the chunk count: the least n with
\* n * ceiling >= fileSize
IsCeilingOfRatio(n, fileSize, ceiling) ==
  n * ceiling >= fileSize /\ (n - 1) * ceiling < fileSize

\* y is x, or below x by no more than x / 2^50
JustBelow(y, x) ==
  /\ ~LessDouble(x, y)
  /\ ~LessDouble([m |-> x.m, e |-> x.e - 50], SubDouble(x, y))

SplitIsContiguous ==
  LET n == Len(aChunks) IN
  /\ IsCeilingOfRatio(n, aMeta.fileSize, getMaxFileSize(env))
  /\ n >= 2
  /\ \A k \in 1..n : aChunks[k].index = k - 1
  /\ aChunks[1].start = DoubleOfNat(0)
  /\ \A k \in 2..n : aChunks[k].start = aChunks[k - 1].end

\* C13 (as the code has it): for a file larger than the ceiling chunkAudio
\* returns ceil(fileSize / ceiling) chunks, at least 2, indexed 0..n-1 in
\* list order, chunk 0 starting at 0 and every chunk starting where the one
\* before ended; the last chunk ends at the duration or, the chunk duration
\* being a rounded quotient, a rounding error below it.
C13_SpansCoverUpToRounding ==
  (apc = "done" /\ aMeta.fileSize > getMaxFileSize(env)) =>
    /\ SplitIsContiguous
    /\ JustBelow(aChunks[Len(aChunks)].end, aMeta.duration)

\* C13 (as stated): ... and the last chunk ends at metadata.duration, so
\* that the spans partition [0, duration] exactly.
C13_SpansPartitionExactly ==
  (apc = "done" /\ aMeta.fileSize > getMaxFileSize(env)) =>
    /\ SplitIsContiguous
    /\ aChunks[Len(aChunks)].end = aMeta.duration

C13_Witness ==
  /\ apc = "done"
  /\ aMeta.fileSize = 3 * MegaByte + 1
  /\ getMaxFileSize(env) = MegaByte
  /\ Len(aChunks) = 4
  /\ aMeta.duration = parseFloat(D_twoMinutes).value
  /\ aChunks[4].end = aMeta.duration


\* an rm command was issued for the file
RemovalTried(f) ==
  \E k \in 1..Len(calls) : calls[k].op = "rm" /\ calls[k].arg.path = f

\* C14: every chunk file a run created has been deleted by the time the run
\* ends (a file may only remain when its rm command itself failed), and the
\* original audio file is never deleted.
C14_ChunkFilesDeletedAtExit ==
  pc = "exited" =>
    /\ \A f \in tmpFiles : RemovalTried(f)
    /\ argv.positionals # <<>> => ~RemovalTried(argv.positionals[1])


-----------------------------------------------------------------------------
(* The harness step runners, each run once over any cache *)

\* How many invocations of the external APIs fail in one harness run, at most
MaxHarnessFaults == 1

EmptyObject == <<>>

\* What earlier runs may have left in .test-cache
AudioOutput(filePath) ==
  LET metadata == MetadataOf(D_minute, MAX_FILE_SIZE_OPENAI)
  IN [metadata |-> metadata, chunks |-> <<WholeFileChunk(filePath, metadata)>>]

TranscriptionKept ==
  [text |-> "kept words", duration |-> DoubleOfNat(60), provider |-> "groq"]

SummaryKept ==
  [title |-> "Kept", summary |-> "Kept.",
   main_points |-> <<JString("one")>>, action_items |-> <<>>]

PageKept ==
  [pageId |-> <<"p","-","0">>, url |-> T_NotionSo \o <<"p","0">>]

EntriesOf(step) ==
  CASE step = "audio" ->
         {CacheEntry([filePath |-> f], AudioOutput(f), 12) : f \in Paths}
    [] step = "transcription" ->
         {CacheEntry([chunks |-> AudioOutput(F_rec).chunks,
                      provider |-> "groq"], TranscriptionKept, 12)}
    [] step = "summarization" ->
         {CacheEntry([textLength |-> 10], SummaryKept, 12)}
    [] step = "notion" ->
         {CacheEntry([title |-> "Kept", databaseId |-> "db-env"],
                     PageKept, 12)}

CacheChoices ==
  {files \in [CacheSteps ->
                {NoFile, Garbled} \cup UNION {EntriesOf(s) : s \in CacheSteps}] :
     \A s \in CacheSteps : files[s] \in {NoFile, Garbled} \cup EntriesOf(s)}

\* The options objects: useCache true, false or absent; the other flags true
\* or absent
OptionChoices(keys) ==
  {[k \in ks |-> IF k = "useCache" THEN use ELSE TRUE] :
     ks \in SUBSET keys, use \in BOOLEAN}

StepOptions(step) ==
  CASE step = "audio" -> OptionChoices({"useCache"})
    [] step = "notion" -> OptionChoices({"useCache", "fromCache", "dryRun"})
    [] OTHER -> OptionChoices({"useCache", "fromCache"})

TranscriptionGiven ==
  [text |-> "given words", duration |-> DoubleOfNat(90),
   provider |-> "openai"]

SummaryGiven ==
  [title |-> "Given", summary |-> "Given.", main_points |-> <<>>,
   action_items |-> <<JString("call back")>>]

StepInputs(step) ==
  CASE step = "audio" -> {[filePath |-> F_rec]}
    [] step = "transcription" ->
         {[provider |-> p] : p \in {Absent, "openai"}}
           \cup {[chunks |-> <<c>>, provider |-> p] :
                   c \in {k \in ChunkPool : k.index = 0},
                   p \in {Absent, "openai"}}
    [] step = "summarization" ->
         {EmptyObject, [text |-> ""], [text |-> "given words"]}
    [] step = "notion" ->
         {EmptyObject,
          [summary |-> SummaryGiven],
          [summary |-> SummaryGiven, transcription |-> TranscriptionGiven],
          [summary |-> SummaryGiven, transcription |-> TranscriptionGiven,
           databaseId |-> "db-flag"]}

StepEnvs(step) ==
  CASE step = "audio" ->
         {BaseEnv, [BaseEnv EXCEPT !.TRANSCRIPTION_PROVIDER = "openai"]}
    [] step = "transcription" ->
         {BaseEnv, [BaseEnv EXCEPT !.TRANSCRIPTION_PROVIDER = "openai"],
          [BaseEnv EXCEPT !.GROQ_API_KEY = Absent, !.OPENAI_API_KEY = Absent]}
    [] step = "summarization" ->
         {BaseEnv, [BaseEnv EXCEPT !.ANTHROPIC_API_KEY = Absent]}
    [] step = "notion" ->
         {BaseEnv, [BaseEnv EXCEPT !.NOTION_DATABASE_ID = Absent],
          [BaseEnv EXCEPT !.NOTION_API_KEY = Absent]}

\* One runner is called with any of its inputs and options, over any cache
InitHarness ==
  /\ InitErrors /\ FnIdle
  /\ CliIdle /\ AudioIdle /\ TransIs(TransIdle) /\ SummarizeIdle /\ NotionIdle
  /\ argv = Undefined
  /\ tmpFiles = {} /\ calls = <<>> /\ stdout = <<>>
  /\ faultsLeft = MaxHarnessFaults
  /\ cache \in CacheChoices
  /\ hpc = "start" /\ hResult = Undefined
  /\ ppc = "off" /\ pResults = <<>>
  /\ ClearIdle
  /\ hStep \in CacheSteps
  /\ hInput \in StepInputs(hStep)
  /\ hOptions \in StepOptions(hStep)
  /\ env \in StepEnvs(hStep)
  /\ fileExists \in BOOLEAN
  /\ hStep # "audio" => fileExists

HarnessFrame ==
  UNCHANGED <<errVars, worldVars, fnArg, fnResult, faultsLeft, ppc, pResults,
              clearVars>>

NextHarness ==
  \/ RunAudioStep /\ HarnessFrame
  \/ AudioStepCheckFFmpeg /\ HarnessFrame
  \/ AudioStepFileExists /\ HarnessFrame
  \/ AudioStepProbe /\ HarnessFrame
  \/ CheckFFmpeg /\ UNCHANGED <<errVars, worldVars, otherVars, faultsLeft>>
  \/ AudioFileExists /\ UNCHANGED <<errVars, worldVars, otherVars, faultsLeft>>
  \/ ProbeAudio /\ UNCHANGED <<errVars, worldVars, otherVars, faultsLeft>>
  \/ ChunkAudio /\ UNCHANGED <<errVars, worldVars, otherVars, faultsLeft>>
  \/ SplitChunk /\ UNCHANGED <<errVars, worldVars, otherVars, faultsLeft>>
  \/ AudioStepResume /\ HarnessFrame
  \/ RunTranscriptionStep /\ HarnessFrame
  \/ RetryInvoke /\ UNCHANGED <<errVars, worldVars, otherVars>>
  \/ RetrySettle /\ UNCHANGED <<errVars, worldVars, otherVars>>
  \/ RetryWake /\ UNCHANGED <<errVars, worldVars, otherVars>>
  \/ TranscribeResume /\ UNCHANGED <<errVars, worldVars, otherVars, faultsLeft>>
  \/ TranscriptionStepResume /\ HarnessFrame
  \/ RunSummarizationStep /\ HarnessFrame
  \/ SummarizeResume /\ UNCHANGED <<errVars, worldVars, otherVars, faultsLeft>>
  \/ SummarizationStepResume /\ HarnessFrame
  \/ RunNotionStep /\ HarnessFrame
  \/ NotionResume /\ UNCHANGED <<errVars, worldVars, otherVars, faultsLeft>>
  \/ NotionStepResume /\ HarnessFrame

SpecHarness == InitHarness /\ [][NextHarness]_vars

\* main() on any command line, or one harness runner over any cache
InitDryRun == InitCli \/ InitHarness

NextDryRun == NextCli \/ NextHarness

SpecDryRun == InitDryRun /\ [][NextDryRun]_vars

\* --dry-run is in force: main() parsed it, or the Notion runner was given it
DryRunMode ==
  \/ options # Undefined /\ options.dryRun
  \/ hpc # "off" /\ hStep = "notion" /\ Flag(hOptions, "dryRun")

\* C15: in dry-run mode no step ever leads to a page creation: no createPage
\* call is made and createVoiceNotePage is never entered, the CLI result has
\* no notion field, the Notion runner's result has no data and is not
\* cache-sourced, and the notion cache entry stays as it was.
C15_DryRunCreatesNoPage ==
  [][DryRunMode' =>
       /\ \A k \in 1..Len(calls') : calls'[k].op \notin {"notion", "writeCache"}
       /\ npc' = "idle"
       /\ ~Has(result', "notion")
       /\ hResult' # Undefined =>
            ~Has(hResult', "data") /\ ~hResult'.cached
       /\ hpc # "off" => cache'["notion"] = cache["notion"]]_vars

\* The Notion runner returned a preview in dry-run mode although a notion
\* entry was cached, the cache was not bypassed and nothing was loaded
C15_Witness ==
  /\ hpc = "returned" /\ hStep = "notion"
  /\ Flag(hOptions, "dryRun") /\ ~Flag(hOptions, "fromCache")
  /\ UseCacheNotFalse(hOptions)
  /\ cache["notion"] \in EntriesOf("notion")
  /\ hResult.success /\ Has(hResult, "preview")
  /\ hResult.preview = buildPreviewContent(hInput.summary,
                                           hInput.transcription)

-----------------------------------------------------------------------------
(* summarizeWithClaude on its own, over a wider set of model responses *)

JsonResponse(value) == ClaudeResponse(TRUE, <<"{">>, TRUE, value)

\* The text blocks the model may answer with beyond ClaudeResponses: JSON
\* values that are not objects, objects with a field missing or of another
\* type, lists whose items are not strings, and no text block at all
R_null == ClaudeResponse(TRUE, <<"n","u","l","l">>, TRUE, JNull)
R_number == ClaudeResponse(TRUE, <<"4","2">>, TRUE, JNumber(42))
R_text == ClaudeResponse(TRUE, <<"\"","h","i","\"">>, TRUE, JString("hi"))
R_list == ClaudeResponse(TRUE, <<"[","]">>, TRUE, JArray(<<>>))
R_numericTitle ==
  JsonResponse(JObject([title |-> JNumber(7), summary |-> JString("s"),
                        main_points |-> JArray(<<>>),
                        action_items |-> JArray(<<>>)]))
R_itemsAsText ==
  JsonResponse(JObject([title |-> JString("t"), summary |-> JString("s"),
                        main_points |-> JArray(<<JString("p")>>),
                        action_items |-> JString("none")]))
R_itemsNull ==
  JsonResponse(JObject([title |-> JString("t"), summary |-> JString("s"),
                        main_points |-> JArray(<<JString("p")>>),
                        action_items |-> JNull]))
R_noActionItems ==
  JsonResponse(JObject([title |-> JString("t"), summary |-> JString("s"),
                        main_points |-> JArray(<<JString("p")>>)]))
R_oddItems ==
  JsonResponse(JObject([title |-> JString("t"), summary |-> JString("s"),
                        main_points |-> JArray(<<JNumber(1), JNull>>),
                        action_items |-> JArray(<<JString("a")>>)]))
R_noTextBlock == ClaudeResponse(FALSE, <<>>, FALSE, JUndefined)
R_extraField ==
  JsonResponse(JObject([title |-> JString("t"), summary |-> JString("s"),
                        main_points |-> JArray(<<>>),
                        action_items |-> JArray(<<>>),
                        extra |-> JNumber(1)]))
R_nestedItems ==
  JsonResponse(JObject([title |-> JString("t"), summary |-> JString("s"),
                        main_points |->
                          JArray(<<JArray(<<JString("a"), JString("b")>>),
                                   JBoolean(TRUE)>>),
                        action_items |-> JArray(<<JArray(<<>>)>>)]))

WideClaudeResponses ==
  ClaudeResponses \cup
  {R_null, R_number, R_text, R_list, R_numericTitle, R_itemsAsText,
   R_itemsNull, R_noActionItems, R_oddItems, R_noTextBlock, R_extraField,
   R_nestedItems}

\* summarizeWithClaude(apiKey, transcription) has been called
InitSummarize ==
  /\ InitErrors /\ OtherIdle /\ WorldIdle /\ CliIdle /\ AudioIdle
  /\ NotionIdle
  /\ tpc = "idle" /\ tArgs = Undefined /\ selectedProvider = Absent
  /\ transcripts = <<>> /\ tResult = Undefined /\ tError = NoError
  /\ faultsLeft = MaxFaults
  /\ \E transcription \in {"", "spoken words"} :
       /\ spc = "await"
       /\ sArgs = [apiKey |-> "ak", transcription |-> transcription]
       /\ sResult = Undefined /\ sError = NoError
       /\ RetryIs(RetryEntry("claude", [text |-> transcription],
                             ApiRetryOptions))

RetrySettleWide == RetrySettleOf(WideClaudeResponses, FnThrows(rFor))

NextSummarize ==
  \/ RetryInvoke /\ UNCHANGED <<errVars, worldVars, otherVars>>
  \/ RetrySettleWide /\ UNCHANGED <<errVars, worldVars, otherVars>>
  \/ RetryWake /\ UNCHANGED <<errVars, worldVars, otherVars>>
  \/ SummarizeResume /\ UNCHANGED <<errVars, worldVars, otherVars, faultsLeft>>

SpecSummarize == InitSummarize /\ [][NextSummarize]_vars

\* the value is a JSON list
IsList(value) == value.t = "array"
\* the value is a JSON string
IsText(value) == value.t = "string"

\* The text of the response is JSON and holds an object with a text title, a
\* text summary, and lists main_points and action_items
HasSummaryShape(response) ==
  /\ response.parses
  /\ response.value.t = "object"
  /\ {"title", "summary", "main_points", "action_items"}
       \subseteq DOMAIN response.value.fields
  /\ IsText(response.value.fields.title)
  /\ IsText(response.value.fields.summary)
  /\ IsList(response.value.fields.main_points)
  /\ IsList(response.value.fields.action_items)

\* C16: when the model's text block is not JSON, or is JSON of any kind
\* without the four fields of the right types, summarizeWithClaude fails with
\* InvalidSummarizationResponseError (summarization, code 32), and the call
\* that returned the response was the last one: only the calls that threw
\* came before it.
C16_ShapeFailureIsCode32 ==
  (/\ spc \in {"done", "threw"} /\ rpc = "returned"
   /\ rValue.hasText /\ ~HasSummaryShape(rValue)) =>
    /\ spc = "threw"
    /\ sError.name = "InvalidSummarizationResponseError"
    /\ sError.category = "summarization" /\ sError.exitCode = 32
    /\ rCalls = Len(rThrown) + 1

\* C17: a result summarizeWithClaude returns has both lists present, and
\* every item of main_points and of action_items is a string.
C17_ResultHoldsListsOfStrings ==
  spc = "done" =>
    /\ {"title", "summary", "main_points", "action_items"}
         \subseteq DOMAIN sResult
    /\ \A k \in 1..Len(sResult.main_points) : IsText(sResult.main_points[k])
    /\ \A k \in 1..Len(sResult.action_items) :
         IsText(sResult.action_items[k])

-----------------------------------------------------------------------------
(* createVoiceNotePage on its own, over a wider set of createPage failures *)

\* What createPage may throw: a plain failure, the transient signatures, and
\* the two database-not-found messages, one of them with a 503 in it
PublishThrows ==
  {[isError |-> TRUE, message |-> m] :
     m \in {M_boom, M_ECONNRESET, M_429, M_Timeout, M_objectNotFound,
            M_noDatabase503}}

\* createVoiceNotePage(key, databaseId, summary, transcription) has been
\* called
InitPublish ==
  /\ InitErrors /\ OtherIdle /\ WorldIdle /\ CliIdle /\ AudioIdle
  /\ SummarizeIdle
  /\ tpc = "idle" /\ tArgs = Undefined /\ selectedProvider = Absent
  /\ transcripts = <<>> /\ tResult = Undefined /\ tError = NoError
  /\ faultsLeft = MaxFaults
  /\ \E databaseId \in {"db-env", "db-flag"} :
       /\ npc = "await"
       /\ nArgs = [notionApiKey |-> "nk", databaseId |-> databaseId,
                   page |-> buildVoiceNoteBlocks(SummaryKept,
                                                 TranscriptionKept,
                                                 databaseId)]
       /\ nResult = Undefined /\ nError = NoError
       /\ RetryIs(RetryEntry("notion", [database |-> databaseId],
                             PageRetryOptions))

RetrySettlePublish == RetrySettleOf(NotionResponses, PublishThrows)

NextPublish ==
  \/ RetryInvoke /\ UNCHANGED <<errVars, worldVars, otherVars>>
  \/ RetrySettlePublish /\ UNCHANGED <<errVars, worldVars, otherVars>>
  \/ RetryWake /\ UNCHANGED <<errVars, worldVars, otherVars>>
  \/ NotionResume /\ UNCHANGED <<errVars, worldVars, otherVars, faultsLeft>>

SpecPublish == InitPublish /\ [][NextPublish]_vars

\* The message names a database that could not be found
SaysDatabaseNotFound(message) ==
  \/ Includes(message, S_CouldNotFindDatabase)
  \/ Includes(message, S_object_not_found)

\* C18: when createPage throws an error whose message says the database was
\* not found, that call is the last one and no sleep follows it, also when
\* the message carries a transient signature, and the error surfaces as
\* NotionDatabaseNotFoundError (42); when every error createPage threw is
\* transient and none says database-not-found, three calls are made with two
\* sleeps and the error surfaces as NotionAPIError (41).
C18_DatabaseNotFoundIsNotRetried ==
  (npc = "threw" /\ rpc = "threw") =>
    LET last == rThrown[Len(rThrown)] IN
    /\ SaysDatabaseNotFound(last.message) =>
         /\ rCalls = Len(rThrown)
         /\ Len(sleeps) = Len(rThrown) - 1
         /\ \A k \in 1..(Len(rThrown) - 1) :
              ~SaysDatabaseNotFound(rThrown[k].message)
         /\ nError.name = "NotionDatabaseNotFoundError"
         /\ nError.exitCode = 42
    /\ (\A k \in 1..Len(rThrown) :
          /\ isTransientError(rThrown[k])
          /\ ~SaysDatabaseNotFound(rThrown[k].message)) =>
         /\ rCalls = 3 /\ Len(sleeps) = 2
         /\ nError.name = "NotionAPIError"
         /\ nError.exitCode = 41

\* createPage threw "Could not find database ... 503" on the first call:
\* nothing was retried, no sleep was taken, and the error has code 42
C18_Witness ==
  /\ npc = "threw" /\ rpc = "threw"
  /\ rCalls = 1 /\ sleeps = <<>>
  /\ rThrown[1].message = M_noDatabase503
  /\ isTransientError(rThrown[1])
  /\ nError.exitCode = 42

\* createPage threw transient errors three times: two sleeps, code 41
C18_WitnessRetried ==
  /\ npc = "threw" /\ rpc = "threw"
  /\ rCalls = 3 /\ Len(sleeps) = 2
  /\ \A k \in 1..3 : isTransientError(rThrown[k])
  /\ nError.exitCode = 41

-----------------------------------------------------------------------------
(* The cache contract of the harness runners *)

\* The cache is not bypassed: useCache is not false and from-cache mode is off
CacheInUse == UseCacheNotFalse(hOptions) /\ ~Flag(hOptions, "fromCache")

\* The runner's own file holds an entry it accepts: for audio one recorded for
\* the same file path, for the other steps any entry
OwnEntryIsValid ==
  /\ cache[hStep].file = "entry"
  /\ hStep = "audio" => cache[hStep].input.filePath = hInput.filePath

\* C19: a runner that is started with the cache in use and a valid entry of
\* its own (outside dry-run mode) returns at once with that entry's output,
\* cached=true and the entry's duration_ms, without any call of the real step
\* and without touching the cache, whatever the other steps' files hold.
C19_CacheHitReturnsCachedOutput ==
  [][(/\ hpc = "start" /\ CacheInUse /\ OwnEntryIsValid
      /\ ~Flag(hOptions, "dryRun")) =>
       /\ hpc' = "returned"
       /\ hResult'.success /\ hResult'.cached
       /\ hResult'.data = cache[hStep].output
       /\ hResult'.duration_ms = cache[hStep].duration_ms
       /\ calls' = calls
       /\ cache' = cache]_vars

\* The input a runner records with its output
RecordedInput ==
  CASE hStep = "audio" -> hInput
    [] hStep = "transcription" ->
         [chunks |-> tArgs.chunks,
          provider |-> loadConfig(env, Field(hInput, "provider"))
                         .value.defaultTranscriptionProvider]
    [] hStep = "summarization" ->
         [textLength |-> Len(sArgs.transcription)]
    [] hStep = "notion" ->
         [title |-> nArgs.page.title, databaseId |-> nArgs.databaseId]

\* C20: when a runner returns, its own cache file has been overwritten with
\* the input, the output and the duration of the run if the real step was
\* executed and succeeded (also with useCache false), and otherwise, in
\* particular when the step failed or an upstream entry was missing, the
\* cache is exactly as it was; the other steps' files are never touched.
C20_CacheWrittenIffStepSucceeded ==
  [][(hpc # "returned" /\ hpc' = "returned") =>
       IF hResult'.success /\ ~hResult'.cached /\ Has(hResult', "data")
       THEN cache' = [cache EXCEPT ![hStep] =
                        [file |-> "entry", input |-> RecordedInput,
                         output |-> hResult'.data,
                         duration_ms |-> hResult'.duration_ms]]
       ELSE cache' = cache]_vars

\* With useCache false a step was executed, succeeded and left its entry
C20_Witness ==
  /\ hpc = "returned"
  /\ Has(hOptions, "useCache") /\ ~hOptions.useCache
  /\ hResult.success /\ ~hResult.cached /\ Has(hResult, "data")
  /\ cache[hStep].file = "entry"
  /\ cache[hStep].output = hResult.data
  /\ cache[hStep].duration_ms = hResult.duration_ms
  /\ cache[hStep] \notin EntriesOf(hStep)

-----------------------------------------------------------------------------
(* From-cache mode of the harness runners *)

\* options.fromCache is true
FromCacheMode == Has(hOptions, "fromCache") /\ hOptions.fromCache

\* The steps whose output is the runner's input
Prerequisites ==
  CASE hStep = "transcription" -> {"audio"}
    [] hStep = "summarization" -> {"transcription"}
    [] hStep = "notion" -> {"summarization", "transcription"}
    [] OTHER -> {}

NoCacheFoundMessages ==
  {"No audio cache found. Run audio step first.",
   "No transcription cache found. Run transcription step first.",
   "No summarization cache found. Run summarization step first."}

\* No real step has been entered
RealStepsIdle ==
  apc = "idle" /\ tpc = "idle" /\ spc = "idle" /\ npc = "idle" /\ rpc = "idle"

\* C21: a runner started in from-cache mode whose prerequisite files all hold
\* an entry never answers from its own entry, and what it hands to the real
\* step (or to the dry-run preview) is the prerequisite's cached output; when
\* a prerequisite file is absent or unreadable it returns success=false with
\* a "No ... cache found" error, the real step is not entered, no call is
\* made and the cache is unchanged.
C21_FromCacheTakesUpstreamOutput ==
  [][(hpc = "start" /\ FromCacheMode /\ hStep # "audio") =>
       IF \E s \in Prerequisites : cache[s].file # "entry"
       THEN /\ hpc' = "returned"
            /\ ~hResult'.success
            /\ hResult'.error \in NoCacheFoundMessages
            /\ RealStepsIdle'
            /\ calls' = calls
            /\ cache' = cache
       ELSE /\ hpc' = "returned" => ~hResult'.cached
            /\ hpc' = "awaitTranscribe" =>
                 tArgs'.chunks = cache["audio"].output.chunks
            /\ hpc' = "awaitSummary" =>
                 sArgs'.transcription = cache["transcription"].output.text
            /\ hpc' = "awaitNotion" =>
                 nArgs'.page = buildVoiceNoteBlocks(
                                 cache["summarization"].output,
                                 cache["transcription"].output,
                                 nArgs'.databaseId)
            /\ (hpc' = "returned" /\ hResult'.success) =>
                 /\ hStep = "notion"
                 /\ hResult'.preview =
                      buildPreviewContent(cache["summarization"].output,
                                          cache["transcription"].output)]_vars

\* In from-cache mode the transcription runner was given chunks of its own,
\* transcribed the chunks of the audio entry instead, and returned a result
\* that is not cache-sourced
C21_Witness ==
  /\ hpc = "returned" /\ hStep = "transcription" /\ FromCacheMode
  /\ hResult.success /\ ~hResult.cached
  /\ hResult.data = tResult
  /\ Has(hInput, "chunks")
  /\ hInput.chunks # cache["audio"].output.chunks
  /\ tArgs.chunks = cache["audio"].output.chunks

-----------------------------------------------------------------------------
(* test/cache.ts on its own: writeCache, readCache and clearCache called in *)
(* any order with any JavaScript values                                     *)

\* JavaScript values beyond the JSON ones
JNaN == [t |-> "NaN", nan |-> TRUE]
JInfinity == [t |-> "Infinity", infinity |-> TRUE]

\* What JSON.stringify writes for a value, as a JSON document: a property
\* holding undefined is left out, undefined inside a list and a number that
\* is NaN or infinite are written as null
RECURSIVE JSONstringify(_)
JSONstringify(value) ==
  CASE value.t = "string" -> [json |-> "string", chars |-> value.v]
    [] value.t = "number" -> [json |-> "number", digits |-> value.n]
    [] value.t = "boolean" -> [json |-> "literal", word |-> value.b]
    [] value.t \in {"null", "NaN", "Infinity"} -> [json |-> "null"]
    [] value.t = "array" ->
         [json |-> "array",
          elements |->
            [k \in 1..Len(value.items) |->
               IF value.items[k].t = "undefined" THEN [json |-> "null"]
               ELSE JSONstringify(value.items[k])]]
    [] value.t = "object" ->
         [json |-> "object",
          members |->
            [k \in {f \in DOMAIN value.fields :
                      value.fields[f].t # "undefined"} |->
               JSONstringify(value.fields[k])]]

\* What JSON.parse returns for a JSON document
RECURSIVE JSONparse(_)
JSONparse(doc) ==
  CASE doc.json = "string" -> JString(doc.chars)
    [] doc.json = "number" -> JNumber(doc.digits)
    [] doc.json = "literal" -> JBoolean(doc.word)
    [] doc.json = "null" -> JNull
    [] doc.json = "array" ->
         JArray([k \in 1..Len(doc.elements) |-> JSONparse(doc.elements[k])])
    [] doc.json = "object" ->
         JObject([k \in DOMAIN doc.members |-> JSONparse(doc.members[k])])

JsonCopyMutant(value) == JNull
\* A property of the entry as it reads back after JSON.stringify and
\* JSON.parse; a property holding undefined is not written and reads back as
\* undefined
JsonCopy(value) ==
  IF value.t = "undefined" THEN JUndefined
  ELSE JSONparse(JSONstringify(value))

\* The file writeCache leaves for an entry of JavaScript values, as readCache
\* parses it. (The runners write strings, finite numbers and lists and
\* records of them, which the copy leaves as they are.)
WrittenFile(input, output, duration_ms) ==
  CacheEntry(JsonCopy(input), JsonCopy(output), JsonCopy(duration_ms))

\* The arguments writeCache is called with
WriteChoices ==
  {[input |-> JObject([filePath |-> JString("rec.mp3")]),
    output |-> JObject([chunks |-> JArray(<<JObject([index |-> JNumber(0),
                                                     last |-> JBoolean(TRUE),
                                                     note |-> JNull])>>),
                        text |-> JString("a b")]),
    duration_ms |-> JNumber(40)],
   [input |-> JObject([textLength |-> JNumber(3)]),
    output |-> JString("kept"),
    duration_ms |-> JNumber(3)],
   [input |-> JObject([provider |-> JUndefined, textLength |-> JNumber(3)]),
    output |-> JArray(<<JNumber(1), JUndefined>>),
    duration_ms |-> JNumber(3)],
   [input |-> JUndefined,
    output |-> JObject([duration |-> JInfinity]),
    duration_ms |-> JNaN]}

InitCache ==
  /\ InitErrors /\ FnIdle /\ WorldIdle /\ CliIdle /\ AudioIdle
  /\ TransIs(TransIdle) /\ SummarizeIdle /\ NotionIdle
  /\ faultsLeft = 0
  /\ cache \in [CacheSteps -> {NoFile, Garbled}]
  /\ hpc = "off" /\ hStep = Undefined /\ hInput = Undefined
  /\ hOptions = Undefined /\ hResult = Undefined
  /\ ppc = "off" /\ pResults = <<>>
  /\ ClearIdle

\* await writeCache(step, input, output, duration_ms)
CallWriteCache ==
  /\ cpc = "idle"
  /\ UNCHANGED clearVars
  /\ \E step \in CacheSteps, args \in WriteChoices :
    /\ fnArg' = [fn |-> "writeCache", step |-> step] @@ args
    /\ fnResult' = Undefined
    /\ cache' = [cache EXCEPT ![step] =
                   WrittenFile(args.input, args.output, args.duration_ms)]

\* await readCache(step)
CallReadCache ==
  /\ cpc = "idle"
  /\ UNCHANGED clearVars
  /\ \E step \in CacheSteps :
    /\ fnArg' = [fn |-> "readCache", step |-> step]
    /\ fnResult' = readCache(cache, step)
    /\ UNCHANGED cache

CacheStepOrder == <<"audio", "transcription", "summarization", "notion">>

ClearTargetsMutant(step) == CacheStepOrder
\* const steps = step ? [step] : ["audio", "transcription", "summarization",
\* "notion"]
ClearTargets(step) == IF Truthy(step) THEN <<step>> ELSE CacheStepOrder

\* await clearCache(step) or await clearCache(): the loop is entered; the
\* files as they are at the call are kept with the arguments
CallClearCache ==
  /\ cpc = "idle"
  /\ \E step \in {Absent} \cup CacheSteps :
       fnArg' = [fn |-> "clearCache", step |-> step,
                 steps |-> ClearTargets(step), filesAtCall |-> cache]
  /\ fnResult' = Undefined
  /\ cpc' = "exists" /\ cIndex' = 1 /\ cleared' = <<>>
  /\ UNCHANGED cache

\* The loop of clearCache goes on to the next step, or clearCache returns
\* `cleared`
ClearAdvances(list) ==
  IF cIndex < Len(fnArg.steps)
  THEN /\ cpc' = "exists" /\ cIndex' = cIndex + 1 /\ cleared' = list
       /\ UNCHANGED fnResult
  ELSE /\ cpc' = "idle" /\ cIndex' = 0 /\ cleared' = <<>>
       /\ fnResult' = list

\* if (await file.exists())
ClearCacheExists ==
  /\ cpc = "exists"
  /\ IF cache[fnArg.steps[cIndex]].file # "none"
     THEN cpc' = "write" /\ UNCHANGED <<cIndex, cleared, fnResult>>
     ELSE ClearAdvances(cleared)
  /\ UNCHANGED <<cache, fnArg>>

\* await Bun.write(path, ""): the file is there and empty
ClearCacheWrite ==
  /\ cpc = "write"
  /\ cache' = [cache EXCEPT ![fnArg.steps[cIndex]] = Garbled]
  /\ cpc' = "import"
  /\ UNCHANGED <<cIndex, cleared, fnArg, fnResult>>

\* const { unlink } = await import("fs/promises")
ClearCacheImport ==
  /\ cpc = "import"
  /\ cpc' = "unlink"
  /\ UNCHANGED <<cache, cIndex, cleared, fnArg, fnResult>>

\* await unlink(path); cleared.push(s)
ClearCacheUnlink ==
  /\ cpc = "unlink"
  /\ cache' = [cache EXCEPT ![fnArg.steps[cIndex]] = NoFile]
  /\ ClearAdvances(Append(cleared, fnArg.steps[cIndex]))
  /\ UNCHANGED fnArg

CacheFrame ==
  UNCHANGED <<errVars, worldVars, tmpFiles, calls, stdout, cliVars, audioVars,
              transVars, sumVars, notionVars, retryVars, faultsLeft,
              hpc, hStep, hInput, hOptions, hResult, ppc, pResults>>

NextCache ==
  \/ CallWriteCache /\ CacheFrame
  \/ CallReadCache /\ CacheFrame
  \/ CallClearCache /\ CacheFrame
  \/ ClearCacheExists /\ CacheFrame
  \/ ClearCacheWrite /\ CacheFrame
  \/ ClearCacheImport /\ CacheFrame
  \/ ClearCacheUnlink /\ CacheFrame

SpecCache == InitCache /\ [][NextCache]_vars

\* The value is made of strings, booleans, null, finite numbers, and lists
\* and objects of those
RECURSIVE IsJsonValue(_)
IsJsonValue(value) ==
  CASE value.t \in {"string", "number", "boolean", "null"} -> TRUE
    [] value.t = "array" ->
         \A k \in 1..Len(value.items) : IsJsonValue(value.items[k])
    [] value.t = "object" ->
         \A f \in DOMAIN value.fields : IsJsonValue(value.fields[f])
    [] OTHER -> FALSE

\* readCache of the step just written gives back the three values written
ReadsBackWhatWasWritten ==
  LET entry == readCache(cache, fnArg.step)
  IN /\ entry # Null
     /\ entry.input = fnArg.input
     /\ entry.output = fnArg.output
     /\ entry.duration_ms = fnArg.duration_ms

\* readCache of a step whose file is missing or does not parse returned null
AbsentReadsAsNull ==
  (fnArg # Undefined /\ fnArg.fn = "readCache"
     /\ cache[fnArg.step].file \in {"none", "garbled"}) =>
    fnResult = Null

\* C22 as stated: directly after any writeCache, readCache of that step gives
\* an entry with the very input, output and duration_ms that were written;
\* a step never written, cleared, or whose file does not parse reads as null.
C22_ReadAfterWriteIsIdentity ==
  /\ (fnArg # Undefined /\ fnArg.fn = "writeCache") =>
       ReadsBackWhatWasWritten
  /\ AbsentReadsAsNull

\* C22, amended: the same, for input, output and duration_ms made of strings,
\* booleans, null, finite numbers, and lists and objects of those.
C22_ReadAfterWriteOfJsonValues ==
  /\ (/\ fnArg # Undefined /\ fnArg.fn = "writeCache"
      /\ IsJsonValue(fnArg.input) /\ IsJsonValue(fnArg.output)
      /\ IsJsonValue(fnArg.duration_ms)) =>
       ReadsBackWhatWasWritten
  /\ AbsentReadsAsNull

\* An entry with nested lists and objects was written over an unreadable
\* file and reads back as written
C22_Witness ==
  /\ fnArg # Undefined /\ fnArg.fn = "writeCache"
  /\ fnArg.output.t = "object"
  /\ IsJsonValue(fnArg.input) /\ IsJsonValue(fnArg.output)
  /\ ReadsBackWhatWasWritten
  /\ \E s \in CacheSteps : cache[s] = Garbled

\* clearCache has returned
ClearReturned ==
  fnArg # Undefined /\ fnArg.fn = "clearCache" /\ cpc = "idle"

Targeted == IF fnArg.step = Absent THEN CacheSteps ELSE {fnArg.step}
Listed == {fnResult[k] : k \in 1..Len(fnResult)}

\* C23: clearCache(step) removes only that step's file and clearCache() all
\* four; the list it returns names exactly the targeted steps whose file
\* existed just before the call (empty when none did), each once; afterwards
\* readCache of every targeted step is null and every other file is as it was.
C23_ClearRemovesOnlyTargets ==
  /\ ClearReturned =>
       /\ Listed = {s \in Targeted : fnArg.filesAtCall[s] # NoFile}
       /\ Len(fnResult) = Cardinality(Listed)
       /\ \A s \in Targeted : readCache(cache, s) = Null /\ cache[s] = NoFile
       /\ \A s \in CacheSteps \ Targeted : cache[s] = fnArg.filesAtCall[s]
  /\ cpc # "idle" =>
       \A s \in CacheSteps \ Targeted : cache[s] = fnArg.filesAtCall[s]

\* clearCache("transcription") reported one cleared entry and left the audio
\* and summarization entries readable
C23_Witness ==
  /\ ClearReturned
  /\ fnArg.step = "transcription"
  /\ fnResult = <<"transcription">>
  /\ cache["transcription"] = NoFile
  /\ readCache(cache, "audio") # Null
  /\ readCache(cache, "summarization") # Null

\* clearCache() found three files, one of them unreadable
C23_WitnessAll ==
  /\ ClearReturned
  /\ fnArg.step = Absent
  /\ fnArg.filesAtCall["summarization"] = Garbled
  /\ fnResult = <<"audio", "summarization", "notion">>

-----------------------------------------------------------------------------
(* retry(): what it logs and how long it sleeps *)

\* C24 as stated: retry has logged exactly one warning for every attempt
\* that failed so far, the final attempt and an attempt whose error the
\* predicate rejects included, the k-th carrying the number of the k-th
\* failed attempt.
C24_WarningPerFailedAttempt ==
  (rFor = "standalone") =>
    /\ Len(warns) = Len(rThrown)
    /\ \A k \in 1..Len(warns) : warns[k].attempt = k

\* What the loop does instead: a warning is logged with every sleep, that is
\* for the failed attempts that are followed by another attempt
C24_WarningPerRetriedAttempt ==
  (rFor = "standalone") =>
    /\ Len(warns) = Len(sleeps)
    /\ \A k \in 1..Len(warns) :
         warns[k].attempt = k /\ warns[k].delay = sleeps[k]
    /\ (rpc = "threw" /\ rThrown # <<>>) => Len(warns) = Len(rThrown) - 1

\* d_1 = initialDelayMs, d_(k+1) = min(d_k * backoffMultiplier, maxDelayMs)
RECURSIVE BackoffDelay(_, _)
BackoffDelay(opts, k) ==
  IF k = 1 THEN opts.initialDelayMs
  ELSE LET grown == BackoffDelay(opts, k - 1) * opts.backoffMultiplier
       IN IF grown < opts.maxDelayMs THEN grown ELSE opts.maxDelayMs

\* C25: the sleep after the k-th failed retryable attempt is d_k, with
\* d_1 = initialDelayMs and d_(k+1) = min(d_k * backoffMultiplier,
\* maxDelayMs); there is no sleep after the final attempt, after a rejected
\* error or after a success; with the defaults and fn always failing the
\* sleeps are exactly 1000 then 2000.
C25_BackoffSchedule ==
  (rFor = "standalone") =>
    /\ \A k \in 1..Len(sleeps) : sleeps[k] = BackoffDelay(rOpts, k)
    /\ rpc \in {"run", "returned"} => Len(sleeps) = Len(rThrown)
    /\ (rpc = "threw" /\ rThrown # <<>>) => Len(sleeps) = Len(rThrown) - 1
    /\ (rpc = "threw" /\ rThrown = <<>>) => sleeps = <<>>
    /\ (rpc = "threw" /\ rOpts = DEFAULT_OPTIONS) => sleeps = <<1000, 2000>>

\* Three sleeps under the cap: 500, then 1500 twice
C25_Witness ==
  /\ rFor = "standalone" /\ rpc = "threw"
  /\ rOpts.initialDelayMs = 500
  /\ sleeps = <<500, 1500, 1500>>
  /\ Len(rThrown) = 4

\* The defaults with fn always failing
C25_WitnessDefaults ==
  /\ rFor = "standalone" /\ rpc = "threw" /\ rOpts = DEFAULT_OPTIONS
  /\ Len(rThrown) = 3 /\ sleeps = <<1000, 2000>>

-----------------------------------------------------------------------------
(* isRateLimitError and isTransientError on their own *)

\* The eight signatures of a transient failure
TransientSignatures ==
  {S_rate_limit, S_429, S_too_many_requests, S_timeout, S_econnreset,
   S_econnrefused, S_503, S_502}

\* A signature with its first letter, or all letters, in upper case
Capitalised(s) == ToUpperCase(SubSeq(s, 1, 1)) \o SubSeq(s, 2, Len(s))

\* Messages that hold a signature, in some casing, alone or inside a
\* sentence, and messages that come close to one without holding it
ClassifiedMessages ==
  UNION {{cased, <<"H","T","T","P"," ">> \o cased \o <<" ","(","x",")">>} :
           cased \in UNION {{s, ToUpperCase(s), Capitalised(s)} :
                              s \in TransientSignatures}}
    \cup {<<>>, M_boom,
          <<"r","a","t","e","-","l","i","m","i","t">>,
          <<"r","a","t","e","l","i","m","i","t">>,
          <<"r","a","t","e"," "," ","l","i","m","i","t">>,
          <<"4","2"," ","9">>, <<"4","0","2","9","0">>,
          <<"t","o","o"," ","m","a","n","y"," ","r","e","q","u","e","s","t">>,
          <<"t","i","m","e"," ","o","u","t">>,
          <<"t","i","m","e","d"," ","o","u","t">>,
          <<"e","c","o","n","n","r","e","s","e">>,
          <<"E","C","O","N","N","A","B","O","R","T","E","D">>,
          <<"5","0","0">>, <<"5","0","4">>, <<"5","0"," ","3">>,
          <<"2","0","5">>, <<"1","5","0","2","0">>}

InitClassify ==
  /\ InitErrors /\ WorldIdle /\ CliIdle /\ AudioIdle
  /\ TransIs(TransIdle) /\ SummarizeIdle /\ NotionIdle
  /\ faultsLeft = 0
  /\ HarnessIdle
  /\ \E m \in ClassifiedMessages :
       fnArg = [fn |-> "none", error |-> Thrown(TRUE, m, 0)]
  /\ fnResult = Undefined

\* isRateLimitError(error)
CallIsRateLimitError ==
  /\ fnArg.fn = "none"
  /\ fnArg' = [fnArg EXCEPT !.fn = "isRateLimitError"]
  /\ fnResult' = isRateLimitError(fnArg.error)

\* isTransientError(error)
CallIsTransientError ==
  /\ fnArg.fn = "none"
  /\ fnArg' = [fnArg EXCEPT !.fn = "isTransientError"]
  /\ fnResult' = isTransientError(fnArg.error)

ClassifyFrame ==
  UNCHANGED <<errVars, worldVars, harnessVars, tmpFiles, calls, stdout,
              cliVars, audioVars, transVars, sumVars, notionVars, retryVars,
              faultsLeft>>

NextClassify ==
  \/ CallIsRateLimitError /\ ClassifyFrame
  \/ CallIsTransientError /\ ClassifyFrame

SpecClassify == InitClassify /\ [][NextClassify]_vars

\* The two characters are the same letter in either case, or the same
\* character
SameIgnoringCase(a, b) == ToLowerCase(<<a>>) = ToLowerCase(<<b>>)

\* The text holds the signature at some position, whatever the casing
HoldsSignature(text, signature) ==
  \E at \in 0..(Len(text) - Len(signature)) :
    \A k \in 1..Len(signature) :
      SameIgnoringCase(text[at + k], signature[k])

\* C26: isTransientError(e) is true exactly when the message of e holds, in
\* any casing, one of "rate limit", "429", "too many requests", "timeout",
\* "econnreset", "econnrefused", "503", "502".
C26_TransientIffSignature ==
  (fnArg.fn = "isTransientError") =>
    (fnResult <=> \E s \in TransientSignatures :
                    HoldsSignature(fnArg.error.message, s))

\* An upper-case signature outside the rate-limit ones, inside a sentence,
\* was classified transient
C26_Witness ==
  /\ fnArg.fn = "isTransientError"
  /\ fnArg.error.message =
       <<"H","T","T","P"," ">> \o ToUpperCase(S_econnrefused)
         \o <<" ","(","x",")">>
  /\ fnResult = TRUE

\* A near miss was classified not transient
C26_WitnessNot ==
  /\ fnArg.fn = "isTransientError"
  /\ fnArg.error.message = <<"t","i","m","e","d"," ","o","u","t">>
  /\ fnResult = FALSE

-----------------------------------------------------------------------------
(* transcribe(): failure of a provider call, and the duration of the result *)

\* The provider loop has thrown because the retry of a chunk threw
ProviderCallFailed ==
  tpc = "threw" /\ rpc = "threw" /\ rFor = selectedProvider
    /\ rFor \in {"groq", "openai"}

\* The message is that of a transient failure
LooksTransient(message) ==
  \E s \in TransientSignatures : HoldsSignature(message, s)

\* C27: when the provider call of a chunk fails for good, transcribe throws
\* TranscriptionAPIError (exit code 21) whose message names the provider and
\* carries the message of the underlying error; no call was made for a later
\* chunk and there is no result, partial or other. The typed error exists
\* only once the chunk was tried three times or its error is not transient.
C27_ProviderFailureAbortsStep ==
  /\ ProviderCallFailed =>
       /\ tError.name = "TranscriptionAPIError"
       /\ tError.exitCode = 21 /\ tError.category = "transcription"
       /\ tError.message =
            (IF selectedProvider = "groq" THEN <<"G","r","o","q">>
             ELSE <<"O","p","e","n","A","I">>)
              \o <<" ","t","r","a","n","s","c","r","i","p","t","i","o","n",
                   " ","f","a","i","l","e","d",":"," ">>
              \o rThrown[Len(rThrown)].message
       /\ tResult = Undefined
       /\ \A i \in 1..Len(ProviderCalls) :
            PositionOf(ProviderCalls[i].arg) <= Len(transcripts) + 1
       /\ Len(transcripts) < Len(tArgs.chunks)
  /\ (tpc # "idle" /\ tError # NoError /\ tError.exitCode = 21) =>
       /\ ProviderCallFailed
       /\ \/ Len(rThrown) = 3
          \/ ~LooksTransient(rThrown[Len(rThrown)].message)

\* The second of three chunks failed three times with a transient error
\* after the first was transcribed: the third was never sent
C27_Witness ==
  /\ ProviderCallFailed
  /\ Len(tArgs.chunks) = 3 /\ transcripts = <<StubText(tArgs.chunks[1])>>
  /\ Len(rThrown) = 3
  /\ LooksTransient(rThrown[3].message)
  /\ tError.exitCode = 21

\* A chunk failed once with an error that is not transient
C27_WitnessNotRetried ==
  /\ ProviderCallFailed
  /\ Len(rThrown) = 1 /\ ~LooksTransient(rThrown[1].message)
  /\ tError.exitCode = 21

\* Chunks whose boundaries are not whole seconds: 0, 0.1, 0.3, 0.6 and
\* 123.456789
SpanBoundary(i) ==
  CASE i = 0 -> DoubleOfNat(0)
    [] i = 1 -> parseFloat(<<"0",".","1">>).value
    [] i = 2 -> parseFloat(<<"0",".","3">>).value
    [] i = 3 -> parseFloat(<<"0",".","6">>).value
    [] OTHER -> parseFloat(D_twoMinutes).value

FractionalChunkPool ==
  {[path |-> ChunkPath(F_rec, i), index |-> i, start |-> SpanBoundary(i),
    end |-> SpanBoundary(i + 1)] : i \in 0..MaxChunks}

\* Up to MaxChunks of them, in any order, contiguous or not
FractionalChunkLists ==
  {<<>>} \cup
  UNION {{q \in [1..n -> FractionalChunkPool] :
            \A i, j \in 1..n : i # j => q[i] # q[j]} : n \in 1..MaxChunks}

\* transcribe() on chunk lists with fractional spans, one provider failure
\* at most
InitDuration ==
  /\ InitErrors /\ OtherIdle /\ WorldIdle /\ CliIdle /\ AudioIdle
  /\ SummarizeIdle /\ NotionIdle
  /\ \E cfg \in ConfigChoices, chunks \in FractionalChunkLists :
       /\ cfg.groqApiKey = "gk" /\ cfg.openaiApiKey = "ok"
       /\ cfg.defaultTranscriptionProvider # "whisper"
       /\ TransIs(TranscribeEntry(cfg, chunks, Absent))
  /\ faultsLeft = 1

NextDuration ==
  \/ RetryInvoke /\ UNCHANGED <<errVars, worldVars, otherVars>>
  \/ RetrySettle /\ UNCHANGED <<errVars, worldVars, otherVars>>
  \/ RetryWake /\ UNCHANGED <<errVars, worldVars, otherVars>>
  \/ TranscribeResume
       /\ UNCHANGED <<errVars, worldVars, otherVars, faultsLeft>>

SpecDuration == InitDuration /\ [][NextDuration]_vars

\* The spans of the first n chunks of the list added up in list order, in
\* double arithmetic
RECURSIVE SpanTotal(_, _)
SpanTotal(chunks, n) ==
  IF n = 0 THEN DoubleOfNat(0)
  ELSE AddDouble(SpanTotal(chunks, n - 1),
                 SubDouble(chunks[n].end, chunks[n].start))

\* C28: the duration of the result of transcribe is the sum of end - start
\* over exactly the chunks it was passed, whatever the list.
C28_DurationIsSumOfSpans ==
  (tpc = "done") =>
    tResult.duration = SpanTotal(tArgs.chunks, Len(tArgs.chunks))

\* Three chunks that are neither contiguous nor in index order: the spans
\* 0.6..123.456789, 0..0.1 and 0.3..0.6 add up to 123.256789
C28_Witness ==
  /\ tpc = "done"
  /\ [k \in 1..Len(tArgs.chunks) |-> tArgs.chunks[k].index] = <<3, 0, 2>>
  /\ tResult.duration = parseFloat(<<"1","2","3",".","2","5","6","7","8","9">>).value

\* The same chunks in another order: the additions round differently and
\* the duration is one unit in the last place above 123.256789
C28_WitnessRounded ==
  /\ tpc = "done"
  /\ [k \in 1..Len(tArgs.chunks) |-> tArgs.chunks[k].index] = <<0, 2, 3>>
  /\ LessDouble(parseFloat(<<"1","2","3",".","2","5","6","7","8","9">>).value,
                tResult.duration)

-----------------------------------------------------------------------------
(* summarizeWithClaude(): failure of the API call *)

\* C29: in summarizeWithClaude only the API call is retried: it is made at
\* most three times, again only after a transient failure, so a failure that
\* is not transient is attempted exactly once; when the call fails for good
\* the error is SummarizationAPIError (exit code 31), never code 32 and never
\* an untyped error, and a response that was received is never asked for
\* again.
C29_ApiFailureIsCode31 ==
  (spc # "idle" /\ rFor = "claude") =>
    /\ rCalls <= 3
    /\ \A k \in 1..(Len(rThrown) - 1) : LooksTransient(rThrown[k].message)
    /\ (rpc = "threw") =>
         /\ rCalls = Len(rThrown)
         /\ LooksTransient(rThrown[Len(rThrown)].message) => rCalls = 3
    /\ (rpc = "returned") => rCalls = Len(rThrown) + 1
    /\ (spc = "threw" /\ rpc = "threw") =>
         /\ sError.name = "SummarizationAPIError"
         /\ sError.isCLIError
         /\ sError.category = "summarization" /\ sError.exitCode = 31
         /\ sResult = Undefined
    /\ (rThrown # <<>> /\ ~LooksTransient(rThrown[Len(rThrown)].message)) =>
         rpc = "threw"

\* The API call failed three times with a transient error
C29_Witness ==
  /\ spc = "threw" /\ rpc = "threw" /\ rFor = "claude"
  /\ rCalls = 3 /\ LooksTransient(rThrown[3].message)
  /\ sError.exitCode = 31

\* The API call failed once with an error that is not transient, after a
\* transient failure
C29_WitnessNotRetried ==
  /\ spc = "threw" /\ rpc = "threw" /\ rFor = "claude"
  /\ rCalls = 2 /\ ~LooksTransient(rThrown[2].message)
  /\ sError.exitCode = 31

-----------------------------------------------------------------------------
(* chunkAudio(): failure of a split subprocess *)

\* The split subprocesses started so far
SplitCalls == SelectSeq(calls, LAMBDA c : c.op = "ffmpeg")

\* C30: when the split subprocess of span i exits non-zero, chunkAudio
\* throws FFmpegError (processing, exit code 52) at once: the subprocesses
\* started are those of spans 0..i and no others, and from then on chunkAudio
\* neither returns a chunk list nor starts another subprocess.
C30_SplitFailureThrowsAtOnce ==
  [][/\ (apc = "split" /\ apc' = "threw") =>
          /\ aError'.name = "FFmpegError"
          /\ aError'.category = "processing" /\ aError'.exitCode = 52
          /\ aError'.isCLIError
          /\ [k \in 1..Len(SplitCalls') |-> SplitCalls'[k].arg.index]
               = [k \in 1..(Len(aChunks) + 1) |-> k - 1]
          /\ Len(aChunks) + 1 <= calculateChunkCount(aMeta, env)
     /\ (apc = "threw") => (apc' = "threw" /\ calls' = calls)]_vars

\* The second of at least three spans failed to split: one chunk had been
\* produced, two subprocesses were started in all
C30_Witness ==
  /\ apc = "threw" /\ aError # NoError /\ aError.exitCode = 52
  /\ Len(aChunks) = 1 /\ Len(SplitCalls) = 2
  /\ calculateChunkCount(aMeta, env) >= 3

-----------------------------------------------------------------------------
(* cleanupChunks() on its own *)

\* The lists cleanupChunks may be handed: the single chunk that is the
\* original file, and up to MaxChunks chunk files in any order
CleanupLists ==
  ChunkLists
    \cup {<<[path |-> F_rec, index |-> 0, start |-> DoubleOfNat(0),
             end |-> DoubleOfNat(60)]>>}

\* The files on disk: the original and any of the chunk files
InitCleanup ==
  /\ InitErrors /\ HarnessIdle /\ CliIdle /\ AudioIdle
  /\ TransIs(TransIdle) /\ SummarizeIdle /\ NotionIdle
  /\ argv = Undefined /\ env = Undefined /\ fileExists = TRUE
  /\ calls = <<>> /\ stdout = <<>>
  /\ faultsLeft = 0
  /\ tmpFiles \in SUBSET ({F_rec} \cup {c.path : c \in ChunkPool})
  /\ \E chunks \in CleanupLists : fnArg = [fn |-> "none", chunks |-> chunks]
  /\ fnResult = Undefined

\* await cleanupChunks(chunks)
CallCleanupChunks ==
  /\ fnArg.fn = "none"
  /\ fnArg' = [fnArg EXCEPT !.fn = "cleanupChunks"]
  /\ CleanupBecomes(fnArg.chunks)
  /\ UNCHANGED <<fnResult, tmpFiles, calls>>
  /\ UNCHANGED <<stdout, cliVars, procVars, transVars, sumVars, notionVars,
                 retryVars>>

NextCleanup ==
  \/ CallCleanupChunks /\ UNCHANGED <<errVars, worldVars, harnessVars, faultsLeft>>
  \/ CleanupExists /\ UNCHANGED <<errVars, worldVars, otherVars, faultsLeft>>
  \/ CleanupRm /\ UNCHANGED <<errVars, worldVars, otherVars, faultsLeft>>

SpecCleanup == InitCleanup /\ [][NextCleanup]_vars

\* The list is the single chunk with index 0
IsOriginalOnly(chunks) == Len(chunks) = 1 /\ chunks[1].index = 0

\* The chunks whose removal was attempted, in the order of the calls
RemovalsTried == SelectSeq(calls, LAMBDA c : c.op = "rm")

\* The chunks whose file was looked for, in the order of the calls
ChecksMade == SelectSeq(calls, LAMBDA c : c.op = "exists")

\* C31: cleanupChunks returns and never throws; a chunk whose deletion
\* fails stays on disk while every other chunk file of the list is deleted;
\* for the single chunk with index 0 nothing is checked or deleted.
C31_CleanupNeverThrows ==
  [][LET paths == {kChunks'[k].path : k \in 1..Len(kChunks')}
         tried == {RemovalsTried'[k].arg.path : k \in 1..Len(RemovalsTried')}
     IN
     /\ kpc' \in {"idle", "exists", "rm", "done"}
     /\ tmpFiles' \subseteq tmpFiles
     /\ (tmpFiles \ tmpFiles') \subseteq paths
     /\ (tmpFiles' # tmpFiles) => (kpc = "rm" /\ calls'[Len(calls')].op = "rm")
     /\ (kpc' # "idle" /\ IsOriginalOnly(kChunks')) =>
          (kpc' = "done" /\ calls' = <<>> /\ tmpFiles' = tmpFiles)
     /\ (kpc' = "done" /\ ~IsOriginalOnly(kChunks')) =>
          /\ ChecksMade' = [k \in 1..Len(kChunks') |->
                              Call("exists", kChunks'[k])]
          /\ Len(RemovalsTried') = Cardinality(tried)
          /\ paths \cap tmpFiles' \subseteq tried
          /\ \A k \in 1..Len(RemovalsTried') :
               \E i \in 1..(Len(calls') - 1) :
                 /\ calls'[i] = Call("exists", RemovalsTried'[k].arg)
                 /\ calls'[i + 1] = RemovalsTried'[k]]_vars

\* The removal of the first of three chunk files failed: it is still there,
\* the two after it were looked for and are gone
C31_Witness ==
  /\ fnArg # Undefined /\ fnArg.fn = "cleanupChunks"
  /\ kpc = "done" /\ Len(kChunks) = 3
  /\ tmpFiles \cap {kChunks[k].path : k \in 1..3} = {kChunks[1].path}
  /\ Len(RemovalsTried) = 3 /\ Len(ChecksMade) = 3

\* The original file alone: nothing was checked or removed
C31_WitnessOriginal ==
  /\ fnArg # Undefined /\ fnArg.fn = "cleanupChunks"
  /\ kpc = "done" /\ Len(kChunks) = 1
  /\ kChunks[1].path = F_rec /\ F_rec \in tmpFiles
  /\ calls = <<>>

-----------------------------------------------------------------------------
(* main(): cleanup between transcription and summarization *)

\* The positions in the call history of the calls with this name
CallsOf(op) == {i \in 1..Len(calls) : calls[i].op = op}

\* C32: in a CLI run that produced n > 1 chunks, once the transcription has
\* succeeded the removal of each of the n chunk files is attempted after the
\* last provider call and before the first call of the summarization; a run
\* with a single chunk attempts no removal at all.
C32_CleanupBeforeSummary ==
  (pc # "off") =>
    /\ \A i \in CallsOf("claude") :
         Len(aChunks) > 1 =>
           \A k \in 1..Len(aChunks) :
             \E j \in CallsOf("rm") : j < i /\ calls[j].arg = aChunks[k]
    /\ \A j \in CallsOf("rm") :
         /\ Len(aChunks) > 1 /\ tpc = "done"
         /\ \A i \in CallsOf("groq") \cup CallsOf("openai") : i < j
         /\ \E k \in 1..Len(aChunks) : calls[j].arg = aChunks[k]
    /\ (pc \in {"awaitSummary", "awaitNotion"} /\ Len(aChunks) > 1) =>
         Cardinality(CallsOf("rm")) = Len(aChunks)

\* Two chunks were transcribed and then removed before Claude was called
C32_Witness ==
  /\ pc = "exited" /\ exitStatus = 0
  /\ Len(aChunks) = 2
  /\ Cardinality(CallsOf("rm")) = 2
  /\ CallsOf("claude") # {}

\* A single-chunk run reached the summarization without any removal
C32_WitnessSingle ==
  /\ pc = "exited" /\ exitStatus = 0
  /\ Len(aChunks) = 1
  /\ CallsOf("rm") = {} /\ CallsOf("claude") # {}

-----------------------------------------------------------------------------
(* buildVoiceNoteBlocks and buildPreviewContent on the same input *)

PointLists ==
  {<<>>, <<JString("p1")>>, <<JString("p1"), JString("p2")>>,
   <<JString("p2"), JString("")>>,
   <<JNumber(1), JNull>>,
   <<JArray(<<JString("a"), JString("b")>>), JBoolean(TRUE)>>,
   <<JArray(<<>>), JArray(<<JNumber(1)>>), JArray(<<JNull, JString("z")>>)>>}

\* Transcript lengths in seconds, around the half minutes Math.round turns on
SpokenSeconds == {0, 29, 30, 89, 90, 3599}

BuilderInputs ==
  [title : {"Weekly sync"}, summary : {"We met."},
   main_points : PointLists, action_items : PointLists,
   text : {"", "a b"}, seconds : SpokenSeconds,
   provider : {"groq", "openai"}]

InitBuilders ==
  /\ InitErrors /\ HarnessIdle /\ WorldIdle /\ CliIdle /\ AudioIdle
  /\ TransIs(TransIdle) /\ SummarizeIdle /\ NotionIdle
  /\ faultsLeft = 0
  /\ fnArg \in BuilderInputs
  /\ fnResult = [none |-> TRUE]

SummaryArg ==
  [title |-> fnArg.title, summary |-> fnArg.summary,
   main_points |-> fnArg.main_points, action_items |-> fnArg.action_items]

TranscriptionArg ==
  [text |-> fnArg.text, duration |-> DoubleOfNat(fnArg.seconds),
   provider |-> fnArg.provider]

\* buildPreviewContent(summary, transcription)
CallBuildPreviewContent ==
  /\ ~Has(fnResult, "preview")
  /\ fnResult' = [k \in (DOMAIN fnResult \ {"none"}) \cup {"preview"} |->
                    IF k = "preview"
                    THEN buildPreviewContent(SummaryArg, TranscriptionArg)
                    ELSE fnResult[k]]
  /\ UNCHANGED fnArg

\* buildVoiceNoteBlocks(summary, transcription, databaseId)
CallBuildVoiceNoteBlocks ==
  /\ ~Has(fnResult, "page")
  /\ fnResult' = [k \in (DOMAIN fnResult \ {"none"}) \cup {"page"} |->
                    IF k = "page"
                    THEN buildVoiceNoteBlocks(SummaryArg, TranscriptionArg,
                                              "db-env")
                    ELSE fnResult[k]]
  /\ UNCHANGED fnArg

BuildersFrame ==
  UNCHANGED <<errVars, worldVars, harnessVars, tmpFiles, calls, stdout,
              cliVars, audioVars, transVars, sumVars, notionVars, retryVars,
              faultsLeft>>

NextBuilders ==
  \/ CallBuildPreviewContent /\ BuildersFrame
  \/ CallBuildVoiceNoteBlocks /\ BuildersFrame

SpecBuilders == InitBuilders /\ [][NextBuilders]_vars

\* Where the value first occurs in the sequence, 0 if nowhere
FirstAt(seq, x) ==
  IF \E k \in 1..Len(seq) : seq[k] = x
  THEN CHOOSE k \in 1..Len(seq) :
         seq[k] = x /\ \A j \in 1..(k - 1) : seq[j] # x
  ELSE 0

Heading(name) == [type |-> "heading_2", text |-> name]

SectionNames == <<"Summary", "Key Points", "Action Items", "Full Transcript">>

\* The section names the sequence holds, in its order, given how a section
\* name is written in it
SectionsIn(seq, Written(_)) ==
  LET marks == {Written(SectionNames[k]) : k \in 1..4}
      found == SelectSeq(seq, LAMBDA x : x \in marks)
  IN [k \in 1..Len(found) |->
        CHOOSE n \in 1..4 : Written(SectionNames[n]) = found[k]]

PreviewHeading(name) == "## " \o name

\* The list section `name` is in both outputs or in neither, it is there iff
\* the list has items, the page is handed item i as it is and line i of the
\* preview is item i written as text
SameListSection(lines, blocks, name, points, blockType, bullet) ==
  LET p == FirstAt(lines, PreviewHeading(name))
      q == FirstAt(blocks, Heading(name))
      n == Len(points)
  IN /\ (p > 0) <=> (q > 0)
     /\ (q > 0) <=> (n > 0)
     /\ Cardinality({k \in 1..Len(blocks) : blocks[k].type = blockType}) = n
     /\ (q > 0) =>
          /\ \A i \in 1..n :
               /\ blocks[q + i].type = blockType
               /\ blocks[q + i].item = points[i]
               /\ lines[p + i] = bullet \o ItemText(points[i])
          /\ lines[p + n + 1] = ""
          /\ blocks[q + n + 1].type = "heading_2"

\* C33: for the same summary and transcription the preview and the page
\* hold the same sections in the same order: the title; Summary with the
\* summary text; Key Points iff main_points is not empty, one item per point
\* in order; Action Items iff action_items is not empty, one item per item in
\* order; Full Transcript with the transcript text; a divider; and a
\* metadata line with the duration in whole minutes and the provider.
C33_PreviewMatchesPage ==
  (Has(fnResult, "preview") /\ Has(fnResult, "page")) =>
    LET lines == fnResult.preview
        blocks == fnResult.page.blocks
        minutes == CHOOSE m \in 0..61 :
                     60 * m - 30 <= fnArg.seconds /\ fnArg.seconds < 60 * m + 30
        meta == "Duration: " \o ToString(minutes) \o " minutes | Provider: "
                  \o fnArg.provider
        t == FirstAt(lines, "## Full Transcript")
        u == FirstAt(blocks, Heading("Full Transcript"))
    IN /\ lines[1] = "# " \o fnResult.page.title
       /\ fnResult.page.title = fnArg.title
       /\ SectionsIn(lines, PreviewHeading) = SectionsIn(blocks, Heading)
       /\ lines[3] = "## Summary" /\ blocks[1] = Heading("Summary")
       /\ lines[4] = fnArg.summary
       /\ blocks[2] = [type |-> "paragraph", text |-> fnArg.summary]
       /\ SameListSection(lines, blocks, "Key Points", fnArg.main_points,
                          "bulleted_list_item", "- ")
       /\ SameListSection(lines, blocks, "Action Items", fnArg.action_items,
                          "to_do", "- [ ] ")
       /\ t > 0 /\ u > 0
       /\ lines[t + 1] = fnArg.text
       /\ blocks[u + 1].type = "toggle"
       /\ blocks[u + 1].children
            = <<[type |-> "paragraph", text |-> fnArg.text]>>
       /\ lines[t + 3] = "---" /\ blocks[u + 2].type = "divider"
       /\ lines[t + 4] = meta
       /\ blocks[u + 3] = [type |-> "paragraph", text |-> meta]
       /\ Len(lines) = t + 4 /\ Len(blocks) = u + 3

\* Both were built for a summary with key points and no action items and a
\* transcript of 89 seconds, which is one minute
C33_Witness ==
  /\ Has(fnResult, "preview") /\ Has(fnResult, "page")
  /\ Len(fnArg.main_points) = 2 /\ fnArg.action_items = <<>>
  /\ fnArg.seconds = 89
  /\ FirstAt(fnResult.preview, "## Key Points") = 6
  /\ FirstAt(fnResult.preview, "## Action Items") = 0
  /\ fnResult.preview[Len(fnResult.preview)]
       = "Duration: 1 minutes | Provider: " \o fnArg.provider

-----------------------------------------------------------------------------
(* test/harness.ts: handlePipelineCommand *)

\* await run<Step>Step(input, opts) is entered
StartRunner(step, input, opts) ==
  /\ hStep' = step /\ hInput' = input /\ hOptions' = opts
  /\ hpc' = "start" /\ hResult' = Undefined

PipelineExitsMutant(results, code) ==
  /\ stdout' = Append(stdout, [kind |-> "pipelineSummary",
                               results |-> [k \in 1..Len(results) |->
                                              results[k].success]])
  /\ exitStatus' = 0
  /\ ppc' = "exited"
  /\ UNCHANGED <<hpc, hStep, hInput, hOptions, hResult>>
\* reporter.printPipelineSummary(results); process.exit(code)
PipelineExits(results, code) ==
  /\ stdout' = Append(stdout, [kind |-> "pipelineSummary",
                               results |-> [k \in 1..Len(results) |->
                                              results[k].success]])
  /\ exitStatus' = code
  /\ ppc' = "exited"
  /\ UNCHANGED <<hpc, hStep, hInput, hOptions, hResult>>

PipelineFrame ==
  UNCHANGED <<errVars, worldVars, fnArg, fnResult, faultsLeft, cache,
              tmpFiles, calls, pc, options, config, result, err, audioVars,
              transVars, sumVars, notionVars, retryVars, clearVars>>

\* The command checks its file argument and calls runAudioStep
PipelineStart ==
  /\ ppc = "start"
  /\ IF ~Truthy(argv.filePath)
     THEN /\ exitStatus' = 1 /\ ppc' = "exited"
          /\ stdout' = Append(stdout, [kind |-> "usage"])
          /\ UNCHANGED <<hpc, hStep, hInput, hOptions, hResult>>
     ELSE /\ StartRunner("audio", [filePath |-> argv.filePath],
                         [useCache |-> ~argv.noCache])
          /\ ppc' = "audio"
          /\ UNCHANGED <<stdout, exitStatus>>
  /\ UNCHANGED pResults
  /\ PipelineFrame

\* runAudioStep returned: exit 1 on failure, else runTranscriptionStep is
\* called with the chunks of its data
PipelineAfterAudio ==
  /\ ppc = "audio" /\ hpc = "returned"
  /\ pResults' = Append(pResults, hResult)
  /\ IF ~hResult.success
     THEN PipelineExits(pResults', 1)
     ELSE /\ StartRunner("transcription", [chunks |-> hResult.data.chunks],
                         [useCache |-> ~argv.noCache])
          /\ ppc' = "transcription"
          /\ UNCHANGED <<stdout, exitStatus>>
  /\ PipelineFrame

\* runTranscriptionStep returned: exit 1 on failure, else
\* runSummarizationStep is called with the text of its data
PipelineAfterTranscription ==
  /\ ppc = "transcription" /\ hpc = "returned"
  /\ pResults' = Append(pResults, hResult)
  /\ IF ~hResult.success
     THEN PipelineExits(pResults', 1)
     ELSE /\ StartRunner("summarization", [text |-> hResult.data.text],
                         [useCache |-> ~argv.noCache])
          /\ ppc' = "summarization"
          /\ UNCHANGED <<stdout, exitStatus>>
  /\ PipelineFrame

\* runSummarizationStep returned: exit 1 on failure, else runNotionStep is
\* called with its data and the data of the transcription step
PipelineAfterSummarization ==
  /\ ppc = "summarization" /\ hpc = "returned"
  /\ pResults' = Append(pResults, hResult)
  /\ IF ~hResult.success
     THEN PipelineExits(pResults', 1)
     ELSE /\ StartRunner("notion",
                         [summary |-> hResult.data,
                          transcription |-> pResults[2].data],
                         [useCache |-> ~argv.noCache,
                          dryRun |-> argv.dryRun])
          /\ ppc' = "notion"
          /\ UNCHANGED <<stdout, exitStatus>>
  /\ PipelineFrame

\* runNotionStep returned: exit 0 iff every result reports success
PipelineAfterNotion ==
  /\ ppc = "notion" /\ hpc = "returned"
  /\ pResults' = Append(pResults, hResult)
  /\ PipelineExits(pResults',
                   IF \A k \in 1..Len(pResults') : pResults'[k].success
                   THEN 0 ELSE 1)
  /\ PipelineFrame

\* What earlier pipeline runs on the file leave in .test-cache
WordsOf(filePath) ==
  [text |-> IF filePath = F_rec THEN "rec words" ELSE "memo words",
   duration |-> DoubleOfNat(60), provider |-> "groq"]

SummaryOf(filePath) ==
  [title |-> IF filePath = F_rec THEN "Rec" ELSE "Memo",
   summary |-> "Kept.", main_points |-> <<JString("one")>>,
   action_items |-> <<>>]

LeftBy(step, filePath) ==
  CASE step = "audio" ->
         CacheEntry([filePath |-> filePath], AudioOutput(filePath), 12)
    [] step = "transcription" ->
         CacheEntry([chunks |-> AudioOutput(filePath).chunks,
                     provider |-> "groq"], WordsOf(filePath), 12)
    [] step = "summarization" ->
         CacheEntry([textLength |-> Len(WordsOf(filePath).text)],
                    SummaryOf(filePath), 12)
    [] step = "notion" ->
         CacheEntry([title |-> SummaryOf(filePath).title,
                     databaseId |-> "db-env"], PageKept, 12)

\* Each file of the cache is absent or was left by a run on one of the two
\* audio files
PipelineCaches ==
  {files \in [CacheSteps ->
                {NoFile} \cup {LeftBy(s, f) : s \in CacheSteps, f \in Paths}] :
     \A s \in CacheSteps :
       files[s] \in {NoFile} \cup {LeftBy(s, f) : f \in Paths}}

PipelineArgs ==
  [filePath : {Absent, F_rec}, noCache : BOOLEAN, dryRun : BOOLEAN]

InitPipeline ==
  /\ InitErrors /\ FnIdle
  /\ CliIdle /\ AudioIdle /\ TransIs(TransIdle) /\ SummarizeIdle /\ NotionIdle
  /\ tmpFiles = {} /\ calls = <<>> /\ stdout = <<>>
  /\ faultsLeft = MaxHarnessFaults
  /\ cache \in PipelineCaches
  /\ hpc = "off" /\ hStep = Undefined /\ hInput = Undefined
  /\ hOptions = Undefined /\ hResult = Undefined
  /\ ppc = "start" /\ pResults = <<>>
  /\ ClearIdle
  /\ argv \in PipelineArgs
  /\ env \in {BaseEnv, [BaseEnv EXCEPT !.ANTHROPIC_API_KEY = Absent]}
  /\ fileExists \in BOOLEAN

NextPipeline ==
  \/ PipelineStart
  \/ PipelineAfterAudio
  \/ PipelineAfterTranscription
  \/ PipelineAfterSummarization
  \/ PipelineAfterNotion
  \/ NextHarness

SpecPipeline == InitPipeline /\ [][NextPipeline]_vars

\* The pipeline has called a runner that has not returned to it yet, or
\* has just exited after its last runner
PipelineRuns == ppc \in CacheSteps

\* What holds of the pipeline in every state it reaches
PipelineInOrder ==
  /\ \A k \in 1..Len(pResults) : k < Len(pResults) => pResults[k].success
  /\ Len(pResults) <= 4
  /\ PipelineRuns =>
       /\ hStep = ppc
       /\ ppc = CacheStepOrder[Len(pResults) + 1]
       /\ \A k \in 1..Len(pResults) : pResults[k].success
       /\ exitStatus = -1
       /\ hStep = "transcription" =>
            hInput.chunks = pResults[1].data.chunks
       /\ hStep = "summarization" => hInput.text = pResults[2].data.text
       /\ hStep = "notion" =>
            /\ hInput.summary = pResults[3].data
            /\ hInput.transcription = pResults[2].data
  /\ (apc \notin {"idle", "done", "threw"}) => (PipelineRuns /\ hStep = "audio")
  /\ (tpc = "await") => (PipelineRuns /\ hStep = "transcription")
  /\ (spc = "await") => (PipelineRuns /\ hStep = "summarization")
  /\ (npc = "await") => (PipelineRuns /\ hStep = "notion")
  /\ (ppc = "exited" /\ pResults # <<>>) =>
       /\ hStep = CacheStepOrder[Len(pResults)]
       /\ exitStatus = (IF pResults[Len(pResults)].success THEN 0 ELSE 1)
       /\ pResults[Len(pResults)].success => Len(pResults) = 4
  /\ (ppc = "exited" /\ exitStatus = 0) =>
       /\ Len(pResults) = 4
       /\ \A k \in 1..4 : pResults[k].success

\* C34: the pipeline command runs the audio, transcription, summarization
\* and Notion runners in that order, one at a time, each called with the
\* data the previous one returned; the first runner that reports
\* success = false ends the run with exit code 1 and no later runner is
\* started; exit code 0 occurs only when all four reported success.
C34_PipelineStepsInOrder ==
  [][/\ PipelineInOrder'
     /\ (ppc = "exited") => (ppc' = "exited" /\ calls' = calls
                               /\ hStep' = hStep /\ cache' = cache)
     /\ (ppc \in CacheSteps /\ ppc' \in CacheSteps /\ ppc' # ppc) =>
          /\ hResult.success
          /\ \E k \in 1..3 : ppc = CacheStepOrder[k]
                               /\ ppc' = CacheStepOrder[k + 1]]_vars

\* A run in which the summarization failed: three results, exit code 1, the
\* Notion runner never called
C34_Witness ==
  /\ ppc = "exited" /\ exitStatus = 1
  /\ Len(pResults) = 3 /\ ~pResults[3].success
  /\ hStep = "summarization" /\ npc = "idle"

\* A run in which all four runners did real work and succeeded
C34_WitnessSuccess ==
  /\ ppc = "exited" /\ exitStatus = 0
  /\ Len(pResults) = 4
  /\ \A k \in 1..4 : ~pResults[k].cached
  /\ npc = "done"

-----------------------------------------------------------------------------
(* What a cached step result was made from (test/steps/*.ts cache checks) *)

\* A runner called by the pipeline has returned a result it read from the
\* cache
ServedFromCache(step) ==
  /\ ppc = step /\ hStep = step /\ hpc = "returned"
  /\ hResult.success /\ hResult.cached

\* C35: in a pipeline run with the cache enabled, whatever earlier runs left
\* in the cache, a transcription, summarization or Notion result served from
\* the cache was made from the upstream input this run passes to the step:
\* the chunks, the length of the text, the title of the summary.
C35_CachedResultsDeriveFromInput ==
  /\ ServedFromCache("transcription") =>
       cache["transcription"].input.chunks = hInput.chunks
  /\ ServedFromCache("summarization") =>
       cache["summarization"].input.textLength = Len(hInput.text)
  /\ ServedFromCache("notion") =>
       cache["notion"].input.title = hInput.summary.title

\* The audio runner is the one that compares the recorded input
C35_AudioServedForSameFile ==
  ServedFromCache("audio") => cache["audio"].input.filePath = hInput.filePath

-----------------------------------------------------------------------------
(* The provider main() hands to transcribe (cli.ts 126-152) *)

\* C36: in a command-line run, transcribe dispatches to the provider that
\* loadConfig validated and returned as defaultTranscriptionProvider, so a
\* run whose configuration loaded never ends with MissingProviderKeyError.
C36_DispatchesToValidatedProvider ==
  /\ (config # Undefined /\ tpc # "idle") =>
       selectedProvider = config.defaultTranscriptionProvider
  /\ (config # Undefined /\ err # NoError) =>
       err.name # "MissingProviderKeyError"

\* What the code does ensure: with an explicit --transcription flag or both
\* keys set, the two agree
C36_AgreeWhenRequestedKeyIsSet ==
  (config # Undefined /\ tpc # "idle"
     /\ Truthy(IF options.transcription = "groq" THEN env.GROQ_API_KEY
               ELSE env.OPENAI_API_KEY)) =>
    selectedProvider = config.defaultTranscriptionProvider

-----------------------------------------------------------------------------
(* The error payload of --json (cli.ts 214-219) *)

\* The JSON error payloads printed so far
ErrorPayloads ==
  {stdout[k].value : k \in {j \in 1..Len(stdout) :
                              /\ stdout[j].kind = "json"
                              /\ ~stdout[j].value.success}}

\* C37: when a run with --json fails, at whatever stage, the audioFile of
\* the JSON error payload is the audio file path given on the command line.
C37_ErrorPayloadNamesAudioFile ==
  \A payload \in ErrorPayloads : payload.audioFile = argv.positionals[1]

\* What the code does ensure: the path is reported once the result object
\* exists, that is for a failure of the Notion step; before that the payload
\* says "unknown"
C37_AudioFileOnceResultExists ==
  \A payload \in ErrorPayloads :
    payload.audioFile = (IF result # Null THEN argv.positionals[1]
                         ELSE T_unknown)

-----------------------------------------------------------------------------
(* One retry() per chunk (transcription/index.ts 104-116, openai.ts 52-64) *)

\* The provider calls made so far for the chunk
CallsFor(chunk) == {k \in 1..Len(calls) : calls[k].arg = chunk}

\* Every chunk has had at most three calls, whatever happened to the chunks
\* before it, and the retry in progress has counted the calls of its own
\* chunk only
OwnBudgets ==
  /\ \A i \in 1..Len(tArgs.chunks) :
       Cardinality(CallsFor(tArgs.chunks[i])) <= 3
  /\ Len(calls) <= 3 * Len(tArgs.chunks)
  /\ (tpc = "await" /\ rpc = "run") =>
       /\ attempt = Cardinality(CallsFor(rArg)) + 1
       /\ attempt <= 3

\* C38: each chunk is transcribed under its own retry budget: the attempt
\* counter and the delay restart at 1 and initialDelayMs for every chunk, so
\* n chunks make at most 3 * n provider calls and the retries spent on one
\* chunk never reduce the attempts left for a later chunk.
C38_EachChunkHasItsOwnBudget ==
  [][/\ OwnBudgets'
     /\ (tpc = "await" /\ tpc' = "await" /\ rArg' # rArg) =>
          /\ rpc' = "run" /\ attempt' = 1 /\ rCalls' = 0
          /\ delay' = DEFAULT_OPTIONS.initialDelayMs
          /\ sleeps' = <<>>
          /\ Cardinality(CallsFor(rArg')) = 0]_vars

\* The first chunk took all three attempts and the second chunk was still
\* retried
C38_Witness ==
  /\ tpc = "await" /\ Len(tArgs.chunks) >= 2
  /\ Len(transcripts) = 1
  /\ rArg = tArgs.chunks[2]
  /\ Cardinality(CallsFor(tArgs.chunks[1])) = 3
  /\ attempt = 2 /\ rpc = "run"

-----------------------------------------------------------------------------
(* The ceiling on the sleeps of retry() (openai.ts 233-258) *)

\* C39: no sleep of retry() between two attempts is longer than maxDelayMs,
\* whatever the options, an initialDelayMs above maxDelayMs included.
C39_SleepsAtMostMaxDelay ==
  \A k \in 1..Len(sleeps) : sleeps[k] <= rOpts.maxDelayMs

\* What the code does ensure: the ceiling applies from the second sleep on;
\* the first sleep is initialDelayMs as given
C39_LaterSleepsAtMostMaxDelay ==
  \A k \in 1..Len(sleeps) :
    IF k = 1 THEN sleeps[k] = rOpts.initialDelayMs
    ELSE sleeps[k] <= rOpts.maxDelayMs

-----------------------------------------------------------------------------
(* loadConfig on its own (config.ts 20-64) *)

\* Any environment: each variable unset or set, a provider key possibly set
\* to the empty string, TRANSCRIPTION_PROVIDER holding any text
ConfigEnvs ==
  [ANTHROPIC_API_KEY : {Absent, "ak"},
   NOTION_API_KEY : {Absent, "nk"},
   NOTION_DATABASE_ID : {Absent, "db-env"},
   GROQ_API_KEY : {Absent, "", "gk"},
   OPENAI_API_KEY : {Absent, "ok"},
   TRANSCRIPTION_PROVIDER : {Absent, "", "groq", "openai", "whisper"},
   GROQ_MAX_FILE_SIZE_MB : {<<>>}]

InitConfig ==
  /\ InitErrors /\ CliIdle /\ AudioIdle
  /\ TransIs(TransIdle) /\ SummarizeIdle /\ NotionIdle
  /\ faultsLeft = 0
  /\ HarnessIdle
  /\ argv = Undefined /\ fileExists = FALSE
  /\ tmpFiles = {} /\ calls = <<>> /\ stdout = <<>>
  /\ env \in ConfigEnvs
  /\ \E requestedProvider \in {Absent, "groq", "openai"} :
       fnArg = [fn |-> "none", requestedProvider |-> requestedProvider]
  /\ fnResult = Undefined

\* loadConfig(requestedProvider)
CallLoadConfig ==
  /\ fnArg.fn = "none"
  /\ fnArg' = [fnArg EXCEPT !.fn = "loadConfig"]
  /\ fnResult' = loadConfig(env, fnArg.requestedProvider)

NextConfig == CallLoadConfig /\ ClassifyFrame

SpecConfig == InitConfig /\ [][NextConfig]_vars

\* The key the environment holds for the provider
KeyOf(provider) ==
  IF provider = "groq" THEN env.GROQ_API_KEY ELSE env.OPENAI_API_KEY

\* loadConfig returned a provider that is groq or openai and has its key, or
\* threw a configuration error with exit code 11 or 12
ReturnsKeyedProvider ==
  IF fnResult.ok
  THEN /\ fnResult.value.defaultTranscriptionProvider \in {"groq", "openai"}
       /\ Truthy(KeyOf(fnResult.value.defaultTranscriptionProvider))
  ELSE fnResult.error.exitCode \in {11, 12}

\* C40: whenever loadConfig returns, for any requested provider and any value
\* of TRANSCRIPTION_PROVIDER, defaultTranscriptionProvider is groq or openai
\* and the key of that provider is configured; otherwise loadConfig throws a
\* configuration error (exit code 11 or 12).
C40_ReturnedProviderIsKeyed ==
  (fnArg.fn = "loadConfig") => ReturnsKeyedProvider

\* What the code does ensure: the same, when the provider asked for or named
\* by TRANSCRIPTION_PROVIDER is one of the two it knows
C40_KeyedWhenProviderIsKnown ==
  (/\ fnArg.fn = "loadConfig"
   /\ \/ Truthy(fnArg.requestedProvider)
      \/ env.TRANSCRIPTION_PROVIDER \in {Absent, "", "groq", "openai"}) =>
    ReturnsKeyedProvider

====
